---- MODULE Spec2Model ----
(***************************************************************************)
(* A model of src/src/glfm_platform_android.c (GLFM, Android back end).    *)
(*                                                                         *)
(* The render thread's state is the GLFMPlatformData singleton, held in    *)
(* the record variable pd.  Every handler of the source is translated as   *)
(* an operator from a state record to the SET of state records it can end  *)
(* in: the outcomes of the EGL calls (a context or surface that cannot be  *)
(* created, a bind or a swap that fails, the error code then reported) are *)
(* the platform's choice, and each such choice yields one member.  An      *)
(* action takes pd' from the set of its whole handler.                     *)
(*                                                                         *)
(* Embedder callbacks are recorded in pd.cb, the sequence of callbacks     *)
(* fired by the last handler, each with a snapshot of the state it was     *)
(* invoked in.  Fields whose name starts with g are history (ghost)        *)
(* fields: they are written by the model only and never read by a handler. *)
(***************************************************************************)
EXTENDS Integers, Sequences, FiniteSets, TLC

\* ------------------------------------------------------------ constants

MAX_SIMULTANEOUS_TOUCHES == 5
RESIZE_EVENT_MAX_WAIT_FRAMES == 5
GLFM_NUM_SENSORS == 4

\* Rendering API tiers (GLFMRenderingAPI), as major*10 + minor.
Tiers == {20, 30, 31, 32}

\* Pixel sizes of a window surface (portrait and landscape).
Portrait == <<1000, 2000>>
Landscape == <<2000, 1000>>

\* Error classes of eglGetError() as _glfmEGLCheckError distinguishes them:
\* EGL_BAD_SURFACE; EGL_CONTEXT_LOST or EGL_BAD_CONTEXT; anything else.
ErrSurface == "EGL_BAD_SURFACE"
ErrContext == "EGL_CONTEXT_LOST"
ErrOther == "other"
ErrCodes == {ErrSurface, ErrContext, ErrOther}

\* The most EGL calls the platform lets fail within one handler.
MaxFaults == 1

\* The most calls of _glfmSetContentRect in a run, and the most commands the
\* command pipe holds before a write blocks.
MaxCalls == 3
MaxPending == 2

\* The most pointers of a motion event.
MaxPointers == 2

\* The most raw samples waiting in the sensor event queue.
MaxQueued == 2

\* The largest repeat count of a key event.
MaxRepeat == 2

\* The clock value, in microseconds, from which no further pass of the main
\* loop is started.
MaxClock == 20000

\* Display rotations (Surface.ROTATION_*) and the orientation of each.
Rotations == {0, 1, 2, 3}

\* ------------------------------------------------------------ variables

VARIABLES
    pd,        \* GLFMPlatformData (+ android_app's content rects, the callback log, history)
    win,       \* the platform: live surface size, rotation, visible frame, density, sensors
    running,   \* android_main is inside its main loop
    rv,        \* the content-rect rendezvous: both threads, the mutex, the command pipe
    enc,       \* _glfmUnicodeToUTF8: the last argument and the static buffer utf8[5]
    touch,     \* the last motion event handed to _glfmOnInputEvent
    pace,      \* the frame pacing of the main loop: the clock, lastSwapTime, the locals
    fmt        \* the configuration selection of _glfmEGLInit: the request, the device, the locals

vars == <<pd, win, running, rv, enc, touch, pace, fmt>>

\* ------------------------------------------------------------ helpers

Bind(S, F(_)) == UNION {F(s) : s \in S}

Min(a, b) == IF a < b THEN a ELSE b

\* One invocation of an embedder callback f with arguments a, with the state
\* it is invoked in.
Entry(s, f, a) ==
    [f |-> f, a |-> a,
     cur |-> s.eglContextCurrent, dpy |-> s.eglDisplay,
     surf |-> s.eglSurface, ctx |-> s.eglContext,
     ann |-> s.gAnnounced, live |-> s.gSurfLive,
     lastFocus |-> s.gLastFocus, mf |-> s.gMismatchFrames,
     cmd |-> s.gCmd, inRender |-> s.gInRender, mt |-> s.multitouchEnabled,
     anim |-> s.animating, reg |-> s.sensorFuncs, exh |-> s.gExhausted,
     rr |-> s.refreshRequested, ori |-> s.orientation,
     lastOri |-> s.gLastOrientation,
     kb |-> <<s.keyboardVisible, s.keyboardFrame>>,
     lastKb |-> s.gLastKeyboard, kbMissed |-> s.gKeyboardMissed,
     rect |-> s.contentRect, bc |-> s.gBroadcast]

Log(s, f, a) == [s EXCEPT !.cb = Append(@, Entry(s, f, a))]

\* display->surfaceCreatedFunc(display, width, height)
surfaceCreatedFunc(s) ==
    [Log(s, "surfaceCreated", <<s.width, s.height>>)
        EXCEPT !.gAnnounced = TRUE, !.gSurfLive = TRUE]

\* display->surfaceDestroyedFunc(display)
surfaceDestroyedFunc(s) ==
    [Log(s, "surfaceDestroyed", <<>>) EXCEPT !.gSurfLive = FALSE]

\* display->focusFunc(display, animating)
focusFunc(s, animating) ==
    [Log(s, "focus", <<animating>>) EXCEPT !.gLastFocus = <<animating>>]

\* ------------------------------------------------------------ EGL

\* The tiers _glfmEGLContextInit attempts, highest first: every tier at or
\* below the preferred API, and OpenGL ES 2.0 in any case.
AttemptedTiers(preferredAPI) == {t \in Tiers : t <= preferredAPI} \cup {20}

\* The platform's EGL is reliable when win.eglFails is false: each call then
\* has only the outcomes it has without a fault.  Otherwise a call that could
\* succeed may fail, at most MaxFaults times within one handler; s.faults
\* counts them (it is the platform's, no handler reads it).
CanFail(s) == win.eglFails /\ s.faults < MaxFaults

Fault(s) == [s EXCEPT !.faults = @ + 1]

\* eglMakeCurrent(display, surface, surface, context): binding no context to
\* a surface is an error, binding nothing to nothing releases the current
\* context and succeeds, binding a context to no surface succeeds where the
\* platform has surfaceless contexts.
eglMakeCurrent(s, surface, context) ==
    IF ~context /\ surface THEN {FALSE}
    ELSE IF ~context /\ ~surface THEN {TRUE}
    ELSE IF ~surface THEN (IF win.eglFails THEN {TRUE, FALSE} ELSE {FALSE})
    ELSE IF CanFail(s) THEN {TRUE, FALSE}
    ELSE {TRUE}

\* eglCreateWindowSurface: succeeds or returns EGL_NO_SURFACE.
eglCreateWindowSurface(s) == IF CanFail(s) THEN {TRUE, FALSE} ELSE {TRUE}

\* eglCreateContext at every attempted tier fails.
eglCreateContextAllFail(s) == CanFail(s)

\* The tiers at which eglCreateContext succeeds in this call: those the
\* device has, or none when the call fails.
eglCreateContextSucceeds(s) ==
    {win.contexts} \cup (IF eglCreateContextAllFail(s) THEN {{}} ELSE {})

\* The attempts of _glfmEGLContextInit tried from the lowest tier upwards and
\* whatever the preferred API is.
ContextAttemptsAscending(preferredAPI, succeeds) ==
    LET a20 == <<20>>
        c20 == 20 \in succeeds
        a30 == IF ~c20 THEN <<30>> ELSE <<>>
        c30 == c20 \/ (a30 # <<>> /\ 30 \in succeeds)
        a31 == IF ~c30 THEN <<31>> ELSE <<>>
        c31 == c30 \/ (a31 # <<>> /\ 31 \in succeeds)
        a32 == IF ~c31 THEN <<32>> ELSE <<>>
        c32 == c31 \/ (a32 # <<>> /\ 32 \in succeeds)
    IN [attempts |-> a20 \o a30 \o a31 \o a32, created |-> c32]

\* The four attempts of _glfmEGLContextInit (446-488) in the order of the
\* code: the tiers eglCreateContext was called with, and the local flag
\* created after the last of them.
ContextAttempts(preferredAPI, succeeds) ==
    LET a32 == IF preferredAPI >= 32 THEN <<32>> ELSE <<>>
        c32 == a32 # <<>> /\ 32 \in succeeds
        a31 == IF ~c32 /\ preferredAPI >= 31 THEN <<31>> ELSE <<>>
        c31 == IF a31 # <<>> THEN 31 \in succeeds ELSE c32
        a30 == IF ~c31 /\ preferredAPI >= 30 THEN <<30>> ELSE <<>>
        c30 == IF a30 # <<>> THEN 30 \in succeeds ELSE c31
        a20 == IF ~c30 THEN <<20>> ELSE <<>>
        c20 == IF a20 # <<>> THEN 20 \in succeeds ELSE c30
    IN [attempts |-> a32 \o a31 \o a30 \o a20, created |-> c20]

\* Lines 490-508: the tier recorded for the versions eglQueryContext answers
\* (the versions asked for, as tier = 10 * major + minor).
RenderingAPIOf(tier) ==
    IF tier = 32 THEN 32
    ELSE IF tier = 31 THEN 31
    ELSE IF tier \div 10 = 3 THEN 30
    ELSE 20

\* The context creation of _glfmEGLContextInit: r.created is the local flag.
\* (gAttempts: the tiers eglCreateContext was called with in this handler.)
glfmEGLContextCreate(s) ==
    IF s.eglContext
    THEN {[st |-> s, created |-> FALSE]}
    ELSE {LET r == ContextAttempts(s.preferredAPI, succeeds)
              s1 == [s EXCEPT !.gAttempts = @ \o r.attempts]
          IN IF r.created
             THEN [st |-> [s1 EXCEPT !.eglContext = TRUE,
                                     !.renderingAPI =
                                         RenderingAPIOf(r.attempts[Len(r.attempts)]),
                                     !.gAnnounced = FALSE],
                   created |-> TRUE]
             ELSE [st |-> IF succeeds # win.contexts THEN Fault(s1) ELSE s1,
                   created |-> FALSE]
          : succeeds \in eglCreateContextSucceeds(s)}

glfmEGLContextBind(r) ==
    {IF ok
     THEN LET s1 == [r.st EXCEPT !.eglContextCurrent = TRUE, !.ret = TRUE]
          IN IF r.created THEN surfaceCreatedFunc(s1) ELSE s1
     ELSE LET s1 == [r.st EXCEPT !.eglContextCurrent = FALSE, !.ret = FALSE,
                                 !.gUnchecked = TRUE]
          IN IF r.st.eglSurface /\ r.st.eglContext THEN Fault(s1) ELSE s1
     : ok \in eglMakeCurrent(r.st, r.st.eglSurface, r.st.eglContext)}

glfmEGLContextInit(s) == Bind(glfmEGLContextCreate(s), glfmEGLContextBind)

glfmEGLContextDisable(s) == [s EXCEPT !.eglContextCurrent = FALSE]

glfmEGLSurfaceInit(s) ==
    IF ~s.eglSurface
    THEN {IF ok THEN [s EXCEPT !.eglSurface = TRUE] ELSE Fault(s) :
             ok \in eglCreateWindowSurface(s)}
    ELSE {s}

\* eglQuerySurface(EGL_WIDTH/EGL_HEIGHT) into platformData->width/height:
\* a failing query leaves its target as it is.
glfmQueryIntoPlatformData(s) ==
    IF s.eglSurface
    THEN [s EXCEPT !.width = win.size[1], !.height = win.size[2]]
    ELSE s

\* eglChooseConfig with successive relaxation finds a configuration or not:
\* none when the device has none for the declared format (win.configs is
\* false), and otherwise one unless the call fails.
eglChooseConfigFound(s) ==
    IF ~win.configs THEN {FALSE}
    ELSE IF CanFail(s) THEN {TRUE, FALSE}
    ELSE {TRUE}

\* _glfmReportSurfaceError(display, "eglChooseConfig() failed"): the failure
\* is logged.
glfmReportSurfaceError(s) == s

\* _glfmEGLInit leaving the display handle set when no configuration matches.
glfmEGLInitKeepsDisplay(s) ==
    IF s.eglDisplay
    THEN Bind(glfmEGLSurfaceInit(s), glfmEGLContextInit)
    ELSE UNION {
           IF found
           THEN Bind({glfmQueryIntoPlatformData(t) :
                         t \in glfmEGLSurfaceInit([s EXCEPT !.eglDisplay = TRUE,
                                                            !.gExhausted = FALSE])},
                     glfmEGLContextInit)
           ELSE {[glfmReportSurfaceError(s) EXCEPT !.eglDisplay = TRUE, !.ret = FALSE,
                                                   !.gExhausted = TRUE]}
           : found \in eglChooseConfigFound(s)}

\* (gExhausted: the last configuration selection found none.)
glfmEGLInit(s) ==
    IF s.eglDisplay
    THEN Bind(glfmEGLSurfaceInit(s), glfmEGLContextInit)
    ELSE UNION {
           IF found
           THEN Bind({glfmQueryIntoPlatformData(t) :
                         t \in glfmEGLSurfaceInit([s EXCEPT !.eglDisplay = TRUE,
                                                            !.gExhausted = FALSE])},
                     glfmEGLContextInit)
           ELSE LET t == [glfmReportSurfaceError(s) EXCEPT !.eglDisplay = FALSE,
                                                           !.ret = FALSE,
                                                           !.gExhausted = TRUE]
                IN {IF win.configs THEN Fault(t) ELSE t}
           : found \in eglChooseConfigFound(s)}

\* _glfmEGLSurfaceDestroy without the _glfmEGLContextDisable at its end.
glfmEGLSurfaceDestroyKeepsCurrent(s) == [s EXCEPT !.eglSurface = FALSE]

glfmEGLSurfaceDestroy(s) ==
    glfmEGLContextDisable([s EXCEPT !.eglSurface = FALSE])

\* _glfmEGLDestroy leaving the context handle as it is.
glfmEGLDestroyKeepsContext(s) ==
    LET s1 == IF s.eglDisplay /\ s.eglContext THEN surfaceDestroyedFunc(s) ELSE s
    IN [s1 EXCEPT !.eglSurface = FALSE, !.eglContextCurrent = FALSE]

glfmEGLDestroy(s) ==
    LET s1 == IF s.eglDisplay /\ s.eglContext THEN surfaceDestroyedFunc(s) ELSE s
    IN [s1 EXCEPT !.eglDisplay = FALSE, !.eglContext = FALSE,
                  !.eglSurface = FALSE, !.eglContextCurrent = FALSE]

\* _glfmEGLCheckError taking every error as unknown.
glfmEGLCheckErrorTearsDown(s0, err) == glfmEGLInit(glfmEGLDestroy(s0))

\* (gUnchecked: a bind or a swap has failed and _glfmEGLCheckError has not
\* run since.)
glfmEGLCheckError(s0, err) ==
    LET s == [s0 EXCEPT !.gUnchecked = FALSE]
    IN IF err = ErrSurface
       THEN glfmEGLSurfaceInit(glfmEGLSurfaceDestroy(s))
       ELSE IF err = ErrContext
       THEN glfmEGLContextInit(
               IF s.eglContext
               THEN surfaceDestroyedFunc([s EXCEPT !.eglContext = FALSE,
                                                   !.eglContextCurrent = FALSE])
               ELSE s)
       ELSE glfmEGLInit(glfmEGLDestroy(s))

\* ------------------------------------------------------------ geometry

ARect(l, t, r, b) == [left |-> l, top |-> t, right |-> r, bottom |-> b]

ZeroRect == ARect(0, 0, 0, 0)

ARectsEqual(r1, r2) ==
    r1.left = r2.left /\ r1.top = r2.top /\ r1.right = r2.right /\ r1.bottom = r2.bottom

\* glfmGetInterfaceOrientation: the display rotation mapped to an orientation;
\* any other answer of the bridge (a failed call) is Unknown.
glfmGetInterfaceOrientation(rotation) ==
    IF rotation = 0 THEN "Portrait"
    ELSE IF rotation = 1 THEN "LandscapeRight"
    ELSE IF rotation = 2 THEN "PortraitUpsideDown"
    ELSE IF rotation = 3 THEN "LandscapeLeft"
    ELSE "Unknown"

\* display->orientationChangedFunc(display, orientation)
orientationChangedFunc(s, orientation) ==
    [Log(s, "orientationChanged", <<orientation>>)
        EXCEPT !.gLastOrientation = <<orientation>>]

\* _glfmReportOrientationChangeIfNeeded without the comparison with the cache.
glfmReportOrientationChangeAlways(s) ==
    LET orientation == glfmGetInterfaceOrientation(win.rotation)
    IN orientationChangedFunc([s EXCEPT !.orientation = orientation,
                                        !.refreshRequested = TRUE],
                              orientation)

glfmReportOrientationChangeIfNeeded(s) ==
    LET orientation == glfmGetInterfaceOrientation(win.rotation)
    IN IF s.orientation # orientation
       THEN orientationChangedFunc([s EXCEPT !.orientation = orientation,
                                             !.refreshRequested = TRUE],
                                   orientation)
       ELSE s

\* The width and height _glfmUpdateSurfaceSizeIfNeeded reads: the live size of
\* the surface, or its uninitialized locals when there is no surface to query.
QueriedSizes(s) ==
    IF s.eglDisplay /\ s.eglSurface THEN {win.size} ELSE win.sizes \cup {<<0, 0>>}

glfmUpdateSurfaceSizeIfNeeded(s, force) ==
    {IF sz[1] # s.width \/ sz[2] # s.height
     THEN IF force \/ s.resizeEventWaitFrames <= 0
          THEN LET s1 == [s EXCEPT !.resizeEventWaitFrames = RESIZE_EVENT_MAX_WAIT_FRAMES,
                                   !.refreshRequested = TRUE,
                                   !.width = sz[1], !.height = sz[2]]
               IN Log(glfmReportOrientationChangeIfNeeded(s1), "resize", sz)
          ELSE [s EXCEPT !.resizeEventWaitFrames = @ - 1]
     ELSE s
     : sz \in QueriedSizes(s)}

\* The four bands between the window and the visible display frame, in the
\* order of nonVisibleRect[]: left, right, top, bottom.
nonVisibleRect(windowRect, visibleRect) ==
    << ARect(windowRect.left, windowRect.top, visibleRect.left, windowRect.bottom),
       ARect(visibleRect.right, windowRect.top, windowRect.right, windowRect.bottom),
       ARect(windowRect.left, windowRect.top, windowRect.right, visibleRect.top),
       ARect(windowRect.left, visibleRect.bottom, windowRect.right, windowRect.bottom) >>

RectW(r) == r.right - r.left
RectH(r) == r.bottom - r.top

\* platformData->scale as android_main sets it, as the fraction num/160:
\* ACONFIGURATION_DENSITY_DEFAULT (0), _ANY (0xfffe), _NONE (0xffff) and any
\* density <= 0 give the scale 1.
ScaleNum(density) ==
    IF density = 0 \/ density = 65534 \/ density = 65535 \/ density <= 0
    THEN 160 ELSE density

\* (int)(100 * platformData->scale): the truncation of 100 * density / 160.
\* (The double arithmetic of the source is exact for the densities of the
\* model, whose scale is a dyadic fraction or whose product is below 1.)
minimumKeyboardSize(density) == (100 * ScaleNum(density)) \div 160

\* The selection loop with a strict comparison against the minimum size.
LargestStepStrict(acc, bands, i, minSize) ==
    LET w == RectW(bands[i])
        h == RectH(bands[i])
        area == w * h
    IN IF w > minSize /\ h > minSize /\ area > acc[2] THEN <<i, area>> ELSE acc

\* One pass of the selection loop: acc is <<largestIndex, largestArea>>.
LargestStep(acc, bands, i, minSize) ==
    LET w == RectW(bands[i])
        h == RectH(bands[i])
        area == w * h
    IN IF w >= minSize /\ h >= minSize /\ area > acc[2] THEN <<i, area>> ELSE acc

RECURSIVE LargestFrom(_, _, _, _)
LargestFrom(acc, bands, i, minSize) ==
    IF i > Len(bands) THEN acc
    ELSE LargestFrom(LargestStep(acc, bands, i, minSize), bands, i + 1, minSize)

\* The visibility and frame _glfmUpdateKeyboardVisibility computes.
KeyboardResult(windowRect, visibleRect, density) ==
    LET bands == nonVisibleRect(windowRect, visibleRect)
        largest == LargestFrom(<<1, -1>>, bands, 1, minimumKeyboardSize(density))
        keyboardVisible == largest[2] > 0
    IN [visible |-> keyboardVisible,
        frame |-> IF keyboardVisible THEN bands[largest[1]] ELSE ZeroRect]

\* _glfmGetWindowVisibleDisplayFrame: the frame the bridge reports, or the
\* default when the call fails.
glfmGetWindowVisibleDisplayFrame(defaultRect) ==
    IF win.bridgeOk THEN win.visible ELSE defaultRect

\* display->keyboardVisibilityChangedFunc(display, visible, x, y, w, h)
\* (gLastKeyboard: the arguments of the last invocation; gKeyboardMissed: the
\* stored visibility or frame has changed since without an invocation.)
keyboardVisibilityChangedFunc(s, keyboardVisible, keyboardFrame) ==
    LET a == <<keyboardVisible, keyboardFrame.left, keyboardFrame.top,
               RectW(keyboardFrame), RectH(keyboardFrame)>>
    IN [Log(s, "keyboardVisibilityChanged", a)
           EXCEPT !.gLastKeyboard = <<a>>, !.gKeyboardMissed = FALSE]

\* The notification of _glfmUpdateKeyboardVisibility: the new values are
\* stored, and the callback is invoked if one is registered.
KeyboardNotify(s, res) ==
    LET s1 == [s EXCEPT !.keyboardVisible = res.visible, !.keyboardFrame = res.frame,
                        !.refreshRequested = TRUE]
    IN IF s1.keyboardVisibilityChangedFunc
       THEN keyboardVisibilityChangedFunc(s1, res.visible, res.frame)
       ELSE [s1 EXCEPT !.gKeyboardMissed = TRUE]

\* _glfmUpdateKeyboardVisibility without the comparison with the stored values.
glfmUpdateKeyboardVisibilityAlways(s) ==
    LET windowRect == s.contentRect
    IN KeyboardNotify(s, KeyboardResult(windowRect,
                                        glfmGetWindowVisibleDisplayFrame(windowRect),
                                        win.density))

glfmUpdateKeyboardVisibility(s) ==
    LET windowRect == s.contentRect
        res == KeyboardResult(windowRect, glfmGetWindowVisibleDisplayFrame(windowRect),
                              win.density)
    IN IF s.keyboardVisible # res.visible \/ ~ARectsEqual(s.keyboardFrame, res.frame)
       THEN KeyboardNotify(s, res)
       ELSE s

\* ------------------------------------------------------------ sensors

Sensors == 0 .. (GLFM_NUM_SENSORS - 1)

\* The calls of the sensor API that can fail: each succeeds or not.
ASensorManager_createEventQueue == {TRUE, FALSE}
ASensorEventQueue_enableSensor == {TRUE, FALSE}
ASensorEventQueue_disableSensor == {TRUE, FALSE}

\* One pass of the loop of _glfmSetAllRequestedSensorsEnabled, for sensor i.
SensorStep(s, i, enabledGlobally) ==
    LET shouldEnable == enabledGlobally /\ s.sensorFuncs[i]
        isEnabled == s.deviceSensorEnabled[i]
        s1 == IF ~shouldEnable
              THEN [s EXCEPT !.sensorEventValid[i] = FALSE]
              ELSE [s EXCEPT !.gDisableFailed[i] = FALSE]
        Switch(q) ==
            IF shouldEnable /\ ~isEnabled
            THEN {[q EXCEPT !.deviceSensorEnabled[i] = ok] :
                     ok \in ASensorEventQueue_enableSensor}
            ELSE IF ~shouldEnable /\ isEnabled
            THEN {[q EXCEPT !.deviceSensorEnabled[i] = ~ok,
                            !.gDisableFailed[i] = ~ok] :
                     ok \in ASensorEventQueue_disableSensor}
            ELSE {q}
    IN IF isEnabled = shouldEnable \/ i \notin win.sensors
       THEN {s1}
       ELSE IF ~s1.sensorEventQueue
       THEN UNION {IF made THEN Switch([s1 EXCEPT !.sensorEventQueue = TRUE])
                   ELSE {[s1 EXCEPT !.gDisableFailed[i] = isEnabled]}
                   : made \in ASensorManager_createEventQueue}
       ELSE Switch(s1)

RECURSIVE SensorsFrom(_, _, _)
SensorsFrom(S, i, enabledGlobally) ==
    IF i >= GLFM_NUM_SENSORS THEN S
    ELSE SensorsFrom(Bind(S, LAMBDA s : SensorStep(s, i, enabledGlobally)),
                     i + 1, enabledGlobally)

glfmSetAllRequestedSensorsEnabled(s, enabledGlobally) ==
    SensorsFrom({s}, 0, enabledGlobally)

\* _glfmSensorFuncUpdated taking the sensors as globally enabled.
glfmSensorFuncUpdatedAlways(s) == glfmSetAllRequestedSensorsEnabled(s, TRUE)

\* _glfmSensorFuncUpdated(display)
glfmSensorFuncUpdated(s) == glfmSetAllRequestedSensorsEnabled(s, s.animating)

\* glfmSetSensorFunc(display, sensor, sensorFunc): the callback of the sensor
\* is replaced (registered is sensorFunc != NULL) and the subscriptions are
\* recomputed.
glfmSetSensorFunc(s, sensor, registered) ==
    glfmSensorFuncUpdated([s EXCEPT !.sensorFuncs[sensor] = registered])

\* The value a raw sample x of sensor i is stored as: the accelerometer's
\* vector is divided by -ASENSOR_STANDARD_GRAVITY (x is in units of it), the
\* magnetometer's and the gyroscope's are passed through; the matrix of a
\* rotation vector is represented by the sample it is computed from.
SensorConvert(i, x) == IF i = 0 THEN 0 - x ELSE x

\* ASensorEventQueue_getEvents(queue, &event, 1) returned the raw event
\* <<sensor, x>>: the call is recorded in the log with what it returned.
ASensorEventQueue_getEvents(s, event) == Log(s, "getEvents", event)

\* The drain loop keeping the sample a sensor already has.
SensorStoreKeep(s, event) ==
    IF s.sensorEvent[event[1]] # 0
    THEN [s EXCEPT !.sensorEventValid[event[1]] = TRUE]
    ELSE [s EXCEPT !.sensorEvent[event[1]] = SensorConvert(event[1], event[2]),
                   !.sensorEventValid[event[1]] = TRUE]

\* What the drain loop does with one raw event.
SensorStore(s, event) ==
    [s EXCEPT !.sensorEvent[event[1]] = SensorConvert(event[1], event[2]),
              !.sensorEventValid[event[1]] = TRUE]

\* The drain loop of a sensor poll cycle over the raw events got, each
\* <<sensor, x>>: st is the platform data, received is sensorEventReceived[].
RECURSIVE SensorDrain(_, _, _)
SensorDrain(r, events, k) ==
    IF k > Len(events) THEN r
    ELSE SensorDrain(
             [st |-> SensorStore(ASensorEventQueue_getEvents(r.st, events[k]), events[k]),
              received |-> [r.received EXCEPT ![events[k][1]] = TRUE]],
             events, k + 1)

\* display->sensorFuncs[i](display, sensorEvent[i])
sensorFunc(s, i) == Log(s, "sensor", <<i, s.sensorEvent[i]>>)

\* The callback loop of a sensor poll cycle, from sensor i on.
RECURSIVE SensorCallbacksFrom(_, _, _)
SensorCallbacksFrom(s, received, i) ==
    IF i >= GLFM_NUM_SENSORS THEN s
    ELSE SensorCallbacksFrom(
             IF s.sensorFuncs[i] /\ received[i] THEN sensorFunc(s, i) ELSE s,
             received, i + 1)

\* One sensor poll cycle (LOOPER_ID_SENSOR_EVENT_QUEUE) that gets events.
OnSensorEvents(s, events) ==
    LET r == SensorDrain([st |-> s, received |-> [i \in Sensors |-> FALSE]], events, 1)
    IN SensorCallbacksFrom(r.st, r.received, 0)

\* ------------------------------------------------------------ drawing

\* _glfmSetAnimating without the suppression of the first activation.
glfmSetAnimatingReportsAll(s, animating) ==
    IF s.animating # animating
    THEN glfmSetAllRequestedSensorsEnabled(
             focusFunc([s EXCEPT !.animating = animating, !.refreshRequested = TRUE,
                                 !.hasInited = TRUE],
                       animating),
             animating)
    ELSE {s}

glfmSetAnimating(s, animating) ==
    IF s.animating # animating
    THEN LET s1 == [s EXCEPT !.animating = animating, !.refreshRequested = TRUE]
             s2 == IF ~s1.hasInited /\ animating
                   THEN [s1 EXCEPT !.hasInited = TRUE]
                   ELSE focusFunc(s1, animating)
         IN glfmSetAllRequestedSensorsEnabled(s2, animating)
    ELSE {s}

\* eglSwapBuffers: fails without a display or a surface, else may fail with
\* any error; "ok" is success.
eglSwapBuffers(s) ==
    IF ~s.eglDisplay THEN {ErrOther}
    ELSE IF ~s.eglSurface THEN {ErrSurface}
    ELSE IF CanFail(s) THEN {"ok"} \cup ErrCodes
    ELSE {"ok"}

\* glfmSwapBuffers; swapCalled and lastSwapTime, which only the pacing of the
\* same pass of the main loop reads, are represented by the logged call.
glfmSwapBuffers(s) ==
    UNION {LET s1 == Log(s, "glfmSwapBuffers", <<result = "ok">>)
               s2 == IF s.eglDisplay /\ s.eglSurface THEN Fault(s1) ELSE s1
           IN IF result = "ok" THEN {s1}
              ELSE glfmEGLCheckError([s2 EXCEPT !.gUnchecked = TRUE], result)
           : result \in eglSwapBuffers(s)}

\* display->renderFunc(display): the embedder draws and either submits the
\* frame with glfmSwapBuffers or does not.
renderFunc(s) ==
    LET s1 == [Log(s, "render", <<>>) EXCEPT !.gInRender = TRUE]
    IN {[Log(t, "renderReturn", <<>>) EXCEPT !.gInRender = FALSE] :
           t \in {s1} \cup glfmSwapBuffers(s1)}

\* display->surfaceRefreshFunc(display)
surfaceRefreshFunc(s) == Log(s, "refresh", <<>>)

\* _glfmDrawFrame invoking the refresh callback before it clears the flag.
glfmDrawFrameClearsLate(s) ==
    IF ~s.eglContextCurrent
    THEN {s}
    ELSE Bind({IF t.refreshRequested
               THEN [surfaceRefreshFunc(t) EXCEPT !.refreshRequested = FALSE]
               ELSE t
               : t \in glfmUpdateSurfaceSizeIfNeeded([s EXCEPT !.gDrew = TRUE], FALSE)},
              renderFunc)

glfmDrawFrame(s) ==
    IF ~s.eglContextCurrent
    THEN {s}
    ELSE Bind({IF t.refreshRequested
               THEN surfaceRefreshFunc([t EXCEPT !.refreshRequested = FALSE])
               ELSE t
               : t \in glfmUpdateSurfaceSizeIfNeeded([s EXCEPT !.gDrew = TRUE], FALSE)},
              renderFunc)

\* ------------------------------------------------------------ commands

\* A handler starts: the callback log of the previous one is dropped.
Begin(s, cmd) ==
    [s EXCEPT !.cb = <<>>, !.gCmd = cmd, !.gDrew = FALSE, !.ret = FALSE, !.faults = 0,
              !.gUnchecked = FALSE, !.gAttempts = <<>>, !.gBroadcast = FALSE]

\* A handler is over: the scratch fields are cleared and the history of the
\* resize debounce is brought up to date: the number of drawn frames since the
\* live size started to differ from the recorded one.
End(s) ==
    [s EXCEPT !.ret = FALSE, !.gDrew = FALSE, !.gInRender = FALSE, !.gCmd = "",
              !.faults = 0, !.gAttempts = <<>>, !.gBroadcast = FALSE,
              !.gEverAnimating = @ \/ s.animating,
              !.gMismatchFrames =
                  IF win.size = <<s.width, s.height>> THEN 0
                  ELSE IF s.gDrew THEN Min(@ + 1, RESIZE_EVENT_MAX_WAIT_FRAMES)
                  ELSE @]

\* The error eglGetError() reports after a failed _glfmEGLInit: the last EGL
\* call was a successful eglTerminate when no configuration was found, and
\* the failed eglMakeCurrent otherwise.
InitError(s) == IF ~s.eglDisplay THEN {ErrOther} ELSE ErrCodes

OnInitWindow(s) ==
    LET inited == glfmEGLInit(s)
        checked == Bind(inited, LAMBDA t :
                       IF t.ret THEN {t}
                       ELSE UNION {glfmEGLCheckError(t, err) : err \in InitError(t)})
    IN Bind({[t EXCEPT !.refreshRequested = TRUE] : t \in checked}, glfmDrawFrame)

\* APP_CMD_TERM_WINDOW tearing down the display and the context as well.
OnTermWindowTearsDown(s) == glfmSetAnimating(glfmEGLDestroy(s), FALSE)

OnTermWindow(s) == glfmSetAnimating(glfmEGLSurfaceDestroy(s), FALSE)

OnWindowRedrawNeeded(s) == {[s EXCEPT !.refreshRequested = TRUE]}

OnGainedFocus(s) == glfmSetAnimating(s, TRUE)

OnLostFocus(s) ==
    IF s.animating
    THEN Bind(glfmDrawFrame([s EXCEPT !.refreshRequested = TRUE]),
              LAMBDA t : glfmSetAnimating(t, FALSE))
    ELSE {s}

\* APP_CMD_CONTENT_RECT_CHANGED with the callbacks ahead of the copy of the
\* pending rectangle and the broadcast.
OnContentRectChangedLate(s) ==
    {[glfmUpdateKeyboardVisibility(glfmReportOrientationChangeIfNeeded(t))
         EXCEPT !.contentRect = s.pendingContentRect, !.gBroadcast = TRUE] :
        t \in glfmUpdateSurfaceSizeIfNeeded([s EXCEPT !.refreshRequested = TRUE], TRUE)}

\* (gBroadcast: the handler has made its pthread_cond_broadcast and released
\* the mutex.)
OnContentRectChanged(s) ==
    LET s1 == [s EXCEPT !.refreshRequested = TRUE,
                        !.contentRect = s.pendingContentRect,
                        !.gBroadcast = TRUE]
    IN {glfmUpdateKeyboardVisibility(glfmReportOrientationChangeIfNeeded(t)) :
           t \in glfmUpdateSurfaceSizeIfNeeded(s1, TRUE)}

OnLowMemory(s) == {Log(s, "lowMemory", <<>>)}

\* APP_CMD_DESTROY, and the exit of the main loop that the destroy request
\* causes in the same iteration.
OnDestroy(s) ==
    LET s1 == glfmEGLDestroy(s)
        quiet == IF s1.sensorEventQueue
                 THEN {[t EXCEPT !.sensorEventQueue = FALSE] :
                          t \in glfmSetAllRequestedSensorsEnabled(s1, FALSE)}
                 ELSE {s1}
    IN {[u EXCEPT !.app = FALSE] :
           u \in Bind({glfmEGLDestroy(t) : t \in quiet},
                      LAMBDA t : glfmSetAnimating(t, FALSE))}

\* Commands _glfmOnAppCmd does nothing for (APP_CMD_START only calls the bridge).
QuietCmds == {"SAVE_STATE", "WINDOW_RESIZED", "START", "RESUME", "PAUSE", "STOP",
              "CONFIG_CHANGED"}

\* _glfmOnAppCmd with APP_CMD_PAUSE releasing the context.
glfmOnAppCmdPauseReleases(s, cmd) ==
    IF cmd = "INIT_WINDOW" THEN OnInitWindow(s)
    ELSE IF cmd = "TERM_WINDOW" THEN OnTermWindow(s)
    ELSE IF cmd = "WINDOW_REDRAW_NEEDED" THEN OnWindowRedrawNeeded(s)
    ELSE IF cmd = "GAINED_FOCUS" THEN OnGainedFocus(s)
    ELSE IF cmd = "LOST_FOCUS" THEN OnLostFocus(s)
    ELSE IF cmd = "CONTENT_RECT_CHANGED" THEN OnContentRectChanged(s)
    ELSE IF cmd = "LOW_MEMORY" THEN OnLowMemory(s)
    ELSE IF cmd = "DESTROY" THEN OnDestroy(s)
    ELSE IF cmd = "PAUSE" THEN {glfmEGLContextDisable(s)}
    ELSE {s}

\* The switch of _glfmOnAppCmd: SAVE_STATE, WINDOW_RESIZED, RESUME, PAUSE and
\* STOP only log, START only calls the bridge, and the default case does
\* nothing.
glfmOnAppCmd(s, cmd) ==
    IF cmd = "INIT_WINDOW" THEN OnInitWindow(s)
    ELSE IF cmd = "TERM_WINDOW" THEN OnTermWindow(s)
    ELSE IF cmd = "WINDOW_REDRAW_NEEDED" THEN OnWindowRedrawNeeded(s)
    ELSE IF cmd = "GAINED_FOCUS" THEN OnGainedFocus(s)
    ELSE IF cmd = "LOST_FOCUS" THEN OnLostFocus(s)
    ELSE IF cmd = "CONTENT_RECT_CHANGED" THEN OnContentRectChanged(s)
    ELSE IF cmd = "LOW_MEMORY" THEN OnLowMemory(s)
    ELSE IF cmd = "DESTROY" THEN OnDestroy(s)
    ELSE {s}

\* ------------------------------------------------------------ touch input

\* The masked actions of a motion event (AMOTION_EVENT_ACTION_*); HOVER_MOVE
\* stands for every action the switch does not name.
MotionActions == {"DOWN", "UP", "MOVE", "CANCEL", "OUTSIDE",
                  "POINTER_DOWN", "POINTER_UP", "HOVER_MOVE"}

\* The phase of a masked action with the default case left valid.
TouchPhaseDefaultValid(maskedAction) ==
    IF maskedAction \in {"DOWN", "POINTER_DOWN"} THEN "Began"
    ELSE IF maskedAction \in {"UP", "POINTER_UP", "OUTSIDE"} THEN "Ended"
    ELSE IF maskedAction = "MOVE" THEN "Moved"
    ELSE "Cancelled"

\* The phase of a masked action, or "invalid" (validAction = false).
TouchPhase(maskedAction) ==
    IF maskedAction \in {"DOWN", "POINTER_DOWN"} THEN "Began"
    ELSE IF maskedAction \in {"UP", "POINTER_UP", "OUTSIDE"} THEN "Ended"
    ELSE IF maskedAction = "MOVE" THEN "Moved"
    ELSE IF maskedAction = "CANCEL" THEN "Cancelled"
    ELSE "invalid"

\* maxTouches with the multitouch switch ignored.
maxTouchesAlways(s) == MAX_SIMULTANEOUS_TOUCHES

\* const int maxTouches, read once when the handling of the event begins.
maxTouches(s) == IF s.multitouchEnabled THEN MAX_SIMULTANEOUS_TOUCHES ELSE 1

\* glfmSetMultitouchEnabled(display, multitouchEnabled)
glfmSetMultitouchEnabled(s, multitouchEnabled) ==
    [s EXCEPT !.multitouchEnabled = multitouchEnabled]

\* display->touchFunc(display, touchNumber, phase, x, y): the embedder's
\* callback, which may call glfmSetMultitouchEnabled before it returns.  (The
\* coordinates are passed through and are not modelled.)
touchFunc(s, touchNumber, phase) ==
    {glfmSetMultitouchEnabled(Log(s, "touch", <<touchNumber, phase>>), b) : b \in BOOLEAN}

\* The delivery of one pointer whatever its id.
DeliverTouchUnchecked(s, touchNumber, phase, max) == touchFunc(s, touchNumber, phase)

\* The delivery of one pointer: dropped unless 0 <= touchNumber < maxTouches.
DeliverTouch(s, touchNumber, phase, max) ==
    IF touchNumber >= 0 /\ touchNumber < max
    THEN touchFunc(s, touchNumber, phase)
    ELSE {s}

\* The loop over the pointers of a moved event, from pointer i on.
RECURSIVE MovedFrom(_, _, _, _)
MovedFrom(S, pointers, i, max) ==
    IF i > Len(pointers) THEN S
    ELSE MovedFrom(Bind(S, LAMBDA s : DeliverTouch(s, pointers[i], "Moved", max)),
                   pointers, i + 1, max)

\* _glfmOnInputEvent for AINPUT_EVENT_TYPE_MOTION: pointers are the pointer
\* ids of the event in order, index (from 1) the pointer its action names.
OnMotionEvent(s, maskedAction, pointers, index) ==
    LET max == maxTouches(s)
        phase == TouchPhase(maskedAction)
    IN IF phase = "invalid" THEN {s}
       ELSE IF phase = "Moved" THEN MovedFrom({s}, pointers, 1, max)
       ELSE DeliverTouch(s, pointers[index], phase, max)

\* ------------------------------------------------------------ text input

\* The bitwise operators of C on unsigned values.
RECURSIVE BitAnd(_, _)
BitAnd(a, b) ==
    IF a = 0 \/ b = 0 THEN 0
    ELSE (a % 2) * (b % 2) + 2 * BitAnd(a \div 2, b \div 2)

RECURSIVE BitOr(_, _)
BitOr(a, b) ==
    IF a = 0 THEN b
    ELSE IF b = 0 THEN a
    ELSE (IF a % 2 = 1 \/ b % 2 = 1 THEN 1 ELSE 0) + 2 * BitOr(a \div 2, b \div 2)

ShiftRight(a, n) == a \div (2 ^ n)

\* (char)x, as the byte stored: the low 8 bits.
Char(x) == x % 256

\* The branches of _glfmUnicodeToUTF8: utf8 is the static buffer utf8[5]
\* (indexed from 1) as the previous call left it.
UTF8OneByte(utf8, unicode) ==
    [utf8 EXCEPT ![1] = Char(BitAnd(unicode, 127)),
                 ![2] = 0]

UTF8TwoBytes(utf8, unicode) ==
    [utf8 EXCEPT ![1] = Char(BitOr(192, ShiftRight(unicode, 6))),
                 ![2] = Char(BitOr(128, BitAnd(unicode, 63))),
                 ![3] = 0]

UTF8ThreeBytes(utf8, unicode) ==
    [utf8 EXCEPT ![1] = Char(BitOr(224, ShiftRight(unicode, 12))),
                 ![2] = Char(BitOr(128, BitAnd(ShiftRight(unicode, 6), 63))),
                 ![3] = Char(BitOr(128, BitAnd(unicode, 63))),
                 ![4] = 0]

\* The four-byte branch with the lead byte taken from bit 16 on.
UTF8FourBytesShift16(utf8, unicode) ==
    [utf8 EXCEPT ![1] = Char(BitOr(240, ShiftRight(unicode, 16))),
                 ![2] = Char(BitOr(128, BitAnd(ShiftRight(unicode, 12), 63))),
                 ![3] = Char(BitOr(128, BitAnd(ShiftRight(unicode, 6), 63))),
                 ![4] = Char(BitOr(128, BitAnd(unicode, 63))),
                 ![5] = 0]

UTF8FourBytes(utf8, unicode) ==
    [utf8 EXCEPT ![1] = Char(BitOr(240, ShiftRight(unicode, 18))),
                 ![2] = Char(BitOr(128, BitAnd(ShiftRight(unicode, 12), 63))),
                 ![3] = Char(BitOr(128, BitAnd(ShiftRight(unicode, 6), 63))),
                 ![4] = Char(BitOr(128, BitAnd(unicode, 63))),
                 ![5] = 0]

\* _glfmUnicodeToUTF8: the buffer as the call leaves it (the limits are
\* 0x80, 0x800, 0x10000 and 0x110000).
glfmUnicodeToUTF8(utf8, unicode) ==
    IF unicode < 128 THEN UTF8OneByte(utf8, unicode)
    ELSE IF unicode < 2048 THEN UTF8TwoBytes(utf8, unicode)
    ELSE IF unicode < 65536 THEN UTF8ThreeBytes(utf8, unicode)
    ELSE IF unicode < 1114112 THEN UTF8FourBytes(utf8, unicode)
    ELSE [utf8 EXCEPT ![1] = 0]

\* ------------------------------------------------------------ key input

\* AKEYCODE_* and AKEY_EVENT_ACTION_* of the NDK, and GLFMKey* of glfm.h.
AKEYCODE_BACK == 4
AKEYCODE_0 == 7
AKEYCODE_9 == 16
AKEYCODE_DPAD_UP == 19
AKEYCODE_DPAD_DOWN == 20
AKEYCODE_DPAD_LEFT == 21
AKEYCODE_DPAD_RIGHT == 22
AKEYCODE_DPAD_CENTER == 23
AKEYCODE_A == 29
AKEYCODE_Z == 54
AKEYCODE_TAB == 61
AKEYCODE_SPACE == 62
AKEYCODE_ENTER == 66
AKEYCODE_MENU == 82

AKEY_EVENT_ACTION_DOWN == 0
AKEY_EVENT_ACTION_UP == 1
AKEY_EVENT_ACTION_MULTIPLE == 2

GLFMKeyTab == 9
GLFMKeyEnter == 13
GLFMKeySpace == 32
GLFMKeyLeft == 37
GLFMKeyUp == 38
GLFMKeyRight == 39
GLFMKeyDown == 40
GLFMKeyNavBack == 4096
GLFMKeyNavMenu == 4097

\* The switch on aKeyCode: the GLFMKey of a key code, 0 for none.
KeyOfKeyCode(aKeyCode) ==
    IF aKeyCode = AKEYCODE_DPAD_LEFT THEN GLFMKeyLeft
    ELSE IF aKeyCode = AKEYCODE_DPAD_RIGHT THEN GLFMKeyRight
    ELSE IF aKeyCode = AKEYCODE_DPAD_UP THEN GLFMKeyUp
    ELSE IF aKeyCode = AKEYCODE_DPAD_DOWN THEN GLFMKeyDown
    ELSE IF aKeyCode \in {AKEYCODE_ENTER, AKEYCODE_DPAD_CENTER} THEN GLFMKeyEnter
    ELSE IF aKeyCode = AKEYCODE_TAB THEN GLFMKeyTab
    ELSE IF aKeyCode = AKEYCODE_SPACE THEN GLFMKeySpace
    ELSE IF aKeyCode = AKEYCODE_BACK THEN GLFMKeyNavBack
    ELSE IF aKeyCode = AKEYCODE_MENU THEN GLFMKeyNavMenu
    ELSE IF aKeyCode >= AKEYCODE_0 /\ aKeyCode <= AKEYCODE_9 THEN aKeyCode - AKEYCODE_0 + 48
    ELSE IF aKeyCode >= AKEYCODE_A /\ aKeyCode <= AKEYCODE_Z THEN aKeyCode - AKEYCODE_A + 65
    ELSE 0

\* The key action of a key-down with every repeat count taken as 0.
KeyDownActionNoRepeat(repeatCount) == "Pressed"

\* The key action of a key-down: GLFMKeyActionRepeated or GLFMKeyActionPressed.
KeyDownAction(repeatCount) == IF repeatCount > 0 THEN "Repeated" ELSE "Pressed"

\* display->keyFunc(display, key, keyAction, 0): r.st is the state, r.handled
\* the local of that name; the embedder's answer to the event is ev.consume.
\* assign tells  handled = keyFunc(..)  from  handled |= keyFunc(..).
keyFunc(r, ev, key, keyAction, assign) ==
    [st |-> Log(r.st, "key", <<key, keyAction, ev.consume>>),
     handled |-> IF assign THEN ev.consume ELSE (r.handled \/ ev.consume)]

\* _glfmHandleBackButton: nothing is called while a JNI exception is pending;
\* otherwise moveTaskToBack(false) is called, and fails or succeeds.
glfmHandleBackButton(r, ev) ==
    IF ev.back = "pending"
    THEN [r EXCEPT !.handled = FALSE]
    ELSE [st |-> Log(r.st, "moveTaskToBack", <<ev.back = "ok">>),
          handled |-> ev.back = "ok"]

\* The back button handled for every unconsumed key-up.
KeyUpAnyKey(r, ev, key) ==
    LET r1 == keyFunc(r, ev, key, "Released", TRUE)
    IN IF ~r1.handled THEN glfmHandleBackButton(r1, ev) ELSE r1

\* AKEY_EVENT_ACTION_UP
KeyUp(r, ev, key) ==
    LET r1 == keyFunc(r, ev, key, "Released", TRUE)
    IN IF ~r1.handled /\ ev.keyCode = AKEYCODE_BACK
       THEN glfmHandleBackButton(r1, ev)
       ELSE r1

\* AKEY_EVENT_ACTION_MULTIPLE: the loop for (i = repeatCount; i > 0; i--).
RECURSIVE KeyMultiple(_, _, _, _)
KeyMultiple(r, ev, key, i) ==
    IF i <= 0 THEN r
    ELSE KeyMultiple(keyFunc(keyFunc(r, ev, key, "Pressed", FALSE),
                             ev, key, "Released", FALSE),
                     ev, key, i - 1)

\* The key part of _glfmOnInputEvent for AINPUT_EVENT_TYPE_KEY.
OnKeyEventKey(r, ev) ==
    LET key == KeyOfKeyCode(ev.keyCode)
    IN IF ~ev.keyFunc \/ ev.keyCode = 0 \/ key = 0 THEN r
       ELSE IF ev.action = AKEY_EVENT_ACTION_UP THEN KeyUp(r, ev, key)
       ELSE IF ev.action = AKEY_EVENT_ACTION_DOWN
       THEN keyFunc(r, ev, key, KeyDownAction(ev.repeatCount), TRUE)
       ELSE IF ev.action = AKEY_EVENT_ACTION_MULTIPLE
       THEN KeyMultiple(r, ev, key, ev.repeatCount)
       ELSE r

\* _glfmGetUnicodeChar: the code point KeyEvent.getUnicodeChar reports, as an
\* unsigned 32-bit value; 0 when the bridge fails.
glfmGetUnicodeChar(ev) == ev.unicode

\* A C string read from the static buffer: the bytes before the first 0.
RECURSIVE CStrFrom(_, _)
CStrFrom(utf8, i) ==
    IF i > Len(utf8) \/ utf8[i] = 0 THEN <<>>
    ELSE <<utf8[i]>> \o CStrFrom(utf8, i + 1)

CStr(utf8) == CStrFrom(utf8, 1)

\* display->charFunc(display, str, 0)
charFunc(s, str) == Log(s, "char", <<str>>)

\* The loop for (i = repeatCount; i > 0; i--) of the text path.
RECURSIVE CharMultiple(_, _, _)
CharMultiple(s, str, i) ==
    IF i <= 0 THEN s ELSE CharMultiple(charFunc(s, str), str, i - 1)

\* Whether the text path converts a code point: there is a char callback,
\* the action is down or multiple and the code point is at least ' '.
CharConverts(ev) ==
    /\ ev.charFunc
    /\ ev.action \in {AKEY_EVENT_ACTION_DOWN, AKEY_EVENT_ACTION_MULTIPLE}
    /\ glfmGetUnicodeChar(ev) >= 32

\* The static buffer after the text path of an event.
OnKeyEventBuffer(utf8, ev) ==
    IF CharConverts(ev) THEN glfmUnicodeToUTF8(utf8, glfmGetUnicodeChar(ev)) ELSE utf8

\* The text part of _glfmOnInputEvent for AINPUT_EVENT_TYPE_KEY.
OnKeyEventChar(s, utf8, ev) ==
    IF CharConverts(ev)
    THEN LET str == CStr(OnKeyEventBuffer(utf8, ev))
         IN IF ev.action = AKEY_EVENT_ACTION_DOWN
            THEN charFunc(s, str)
            ELSE CharMultiple(s, str, ev.repeatCount)
    ELSE s

\* _glfmOnInputEvent for AINPUT_EVENT_TYPE_KEY; the event and the value
\* returned are entries of the log.
OnKeyEvent(s, utf8, ev) ==
    LET r == OnKeyEventKey([st |-> Log(s, "keyEvent", <<ev>>), handled |-> FALSE], ev)
    IN Log(OnKeyEventChar(r.st, utf8, ev), "return", <<r.handled>>)

\* ------------------------------------------------------------ content rect

\* The rectangles the platform reports as content rect.
RvRects == {ARect(0, 0, 1000, 2000), ARect(0, 0, 2000, 1000), ZeroRect}

\* The loop condition of _glfmSetContentRect, taken as never true.
SetContentRectNoWait(v) == [v EXCEPT !.epc = "unlock"]

\* The loop condition of _glfmSetContentRect, with a wait that keeps the mutex.
SetContentRectWaitHolding(v) ==
    IF ~ARectsEqual(v.contentRect, v.pendingContentRect)
    THEN [v EXCEPT !.epc = "wait", !.gWaited = TRUE]
    ELSE [v EXCEPT !.epc = "unlock"]

\* The loop condition of _glfmSetContentRect, evaluated with the mutex held:
\* wait (pthread_cond_wait releases the mutex) or leave the loop.
SetContentRectCheck(v) ==
    IF ~ARectsEqual(v.contentRect, v.pendingContentRect)
    THEN [v EXCEPT !.epc = "wait", !.mutex = "free", !.gWaited = TRUE]
    ELSE [v EXCEPT !.epc = "unlock"]

\* ------------------------------------------------------------ lifecycle actions

Others == <<rv, enc, touch, pace, fmt>>

Handle(cmd, Outcomes(_)) ==
    /\ running
    /\ pd' \in {End(t) : t \in Outcomes(Begin(pd, cmd))}
    /\ UNCHANGED <<win, running, Others>>

CmdInitWindow ==
    /\ running
    /\ pd' \in {[End(t) EXCEPT !.gWindowReady = t.eglSurface /\ t.eglContextCurrent] :
                    t \in OnInitWindow(Begin(pd, "INIT_WINDOW"))}
    /\ UNCHANGED <<win, running, Others>>

CmdTermWindow ==
    /\ running
    /\ pd' \in {[End(t) EXCEPT !.gWindowReady = FALSE] :
                    t \in OnTermWindow(Begin(pd, "TERM_WINDOW"))}
    /\ UNCHANGED <<win, running, Others>>

CmdWindowRedrawNeeded == Handle("WINDOW_REDRAW_NEEDED", OnWindowRedrawNeeded)

CmdGainedFocus == Handle("GAINED_FOCUS", OnGainedFocus)

CmdLostFocus == Handle("LOST_FOCUS", OnLostFocus)

CmdContentRectChanged ==
    \E r \in win.rects :
        Handle("CONTENT_RECT_CHANGED",
               LAMBDA s : OnContentRectChanged([s EXCEPT !.pendingContentRect = r]))

CmdLowMemory == Handle("LOW_MEMORY", LAMBDA s : glfmOnAppCmd(s, "LOW_MEMORY"))

CmdQuiet == \E c \in QuietCmds : Handle(c, LAMBDA s : glfmOnAppCmd(s, c))

CmdDestroy ==
    /\ running
    /\ pd' \in {[End(t) EXCEPT !.gWindowReady = FALSE] :
                    t \in OnDestroy(Begin(pd, "DESTROY"))}
    /\ running' = FALSE
    /\ win' = [win EXCEPT !.queue = <<>>]
    /\ UNCHANGED Others

\* One pass of the main loop with no event pending, while animating.
Frame ==
    /\ pd.animating
    /\ Handle("frame", glfmDrawFrame)

\* glfmMain(display), the embedder's entry point.
\* (gMainCalls: the number of calls of it in the process.)
glfmMain(s) == [Log(s, "glfmMain", <<>>) EXCEPT !.gMainCalls = @ + 1]

\* Lines 1213-1224: the display is allocated and glfmMain called.
CreateDisplay(s) ==
    glfmMain([s EXCEPT !.display = TRUE,
                       !.orientation = glfmGetInterfaceOrientation(win.rotation),
                       !.resizeEventWaitFrames = RESIZE_EVENT_MAX_WAIT_FRAMES])

\* android_main calling glfmMain on every entry.
android_mainEveryEntry(s) ==
    CreateDisplay([Log(Begin(s, ""), "android_main", <<>>)
                      EXCEPT !.refreshRequested = TRUE, !.app = TRUE,
                             !.contentRect = ZeroRect,
                             !.pendingContentRect = ZeroRect])

\* android_main up to its main loop (1175-1224), entered with the platform
\* data the process has kept; the android_app is a new one, with a zero
\* content rectangle.
android_main(s) ==
    LET s1 == [Log(Begin(s, ""), "android_main", <<>>)
                  EXCEPT !.refreshRequested = TRUE, !.app = TRUE,
                         !.contentRect = ZeroRect,
                         !.pendingContentRect = ZeroRect]
    IN IF ~s1.display THEN CreateDisplay(s1) ELSE s1

\* android_main is entered again in the same process after a destroy.
AndroidMain ==
    /\ ~running
    /\ running' = TRUE
    /\ pd' = android_main(pd)
    /\ UNCHANGED <<win, Others>>

\* The platform resizes the window (a rotation).
WindowSizeChanged ==
    /\ \E sz \in win.sizes \ {win.size} :
          /\ win' = [win EXCEPT !.size = sz]
          /\ pd' = [pd EXCEPT !.gMismatchFrames =
                        IF sz = <<pd.width, pd.height>>
                           \/ win.size = <<pd.width, pd.height>> THEN 0 ELSE @]
    /\ UNCHANGED <<running, Others>>

\* ------------------------------------------------------------ initial state

NoSensors == [i \in Sensors |-> FALSE]

\* android_app's rendezvous fields after android_app_create (calloc), the
\* event thread outside _glfmSetContentRect, the render thread polling.
InitRv ==
    [mutex |-> "free", contentRect |-> ZeroRect, pendingContentRect |-> ZeroRect,
     pipe |-> 0, signal |-> FALSE,
     epc |-> "idle", erect |-> ZeroRect, rpc |-> "poll",
     calls |-> 0, gWaited |-> FALSE, gPrev |-> ZeroRect]

\* static char utf8[5], zero-initialized; no call made yet.
InitEnc == [unicode |-> 0, utf8 |-> <<0, 0, 0, 0, 0>>, called |-> FALSE]

\* No motion event handled yet.
InitTouch == [action |-> "none", pointers |-> <<>>, index |-> 0]

\* GLFMPlatformData as android_main leaves it before its main loop (calloc,
\* then lines 1195-1224).
InitPlatformData(rotation, preferredAPI) ==
    [preferredAPI |-> preferredAPI, app |-> TRUE, display |-> TRUE, gMainCalls |-> 1,
     animating |-> FALSE, hasInited |-> FALSE, refreshRequested |-> TRUE,
     eglDisplay |-> FALSE, eglSurface |-> FALSE, eglContext |-> FALSE,
     eglContextCurrent |-> FALSE,
     width |-> 0, height |-> 0,
     resizeEventWaitFrames |-> RESIZE_EVENT_MAX_WAIT_FRAMES,
     renderingAPI |-> 20,
     orientation |-> glfmGetInterfaceOrientation(rotation),
     keyboardVisible |-> FALSE, keyboardFrame |-> ZeroRect,
     keyboardVisibilityChangedFunc |-> TRUE,
     gLastKeyboard |-> <<>>, gKeyboardMissed |-> FALSE,
     multitouchEnabled |-> FALSE,
     contentRect |-> ZeroRect, pendingContentRect |-> ZeroRect,
     sensorFuncs |-> NoSensors, deviceSensorEnabled |-> NoSensors,
     sensorEventValid |-> NoSensors, sensorEventQueue |-> FALSE,
     sensorEvent |-> [i \in Sensors |-> 0],
     gDisableFailed |-> NoSensors,
     cb |-> <<>>, ret |-> FALSE, faults |-> 0,
     gCmd |-> "", gDrew |-> FALSE, gInRender |-> FALSE, gUnchecked |-> FALSE,
     gExhausted |-> FALSE, gLastOrientation |-> <<>>, gAttempts |-> <<>>,
     gBroadcast |-> FALSE,
     gAnnounced |-> FALSE, gSurfLive |-> FALSE, gLastFocus |-> <<>>,
     gMismatchFrames |-> 0, gWindowReady |-> FALSE, gEverAnimating |-> FALSE]

InitWindow ==
    [eglFails |-> TRUE, size |-> Portrait, sizes |-> {Portrait},
     rotation |-> 0, density |-> 160,
     bridgeOk |-> FALSE, visible |-> ARect(0, 0, 1000, 1500),
     rects |-> {ARect(0, 0, 1000, 2000)}, sensors |-> Sensors,
     queue |-> <<>>, configs |-> TRUE, contexts |-> Tiers]

\* The pacing before the first pass of the main loop: lastSwapTime is the
\* clock as android_main read it (line 1197).
InitPace ==
    [pc |-> "draw", clock |-> 0, lastSwapTime |-> 0, swapCalled |-> FALSE,
     sleepUntilTime |-> 0, now |-> 0,
     gPrevSwapTime |-> 0, gPeriod |-> 0, gExit |-> "none", gSlept |-> FALSE]

\* An EGL configuration, or the attributes asked of one.
EGLConfig(rBits, gBits, bBits, aBits, depthBits, stencilBits, samples) ==
    [rBits |-> rBits, gBits |-> gBits, bBits |-> bBits, aBits |-> aBits,
     depthBits |-> depthBits, stencilBits |-> stencilBits, samples |-> samples]

\* Lines 586-632: the attributes _glfmEGLInit starts from for the declared
\* colour, depth and stencil formats and multisample level.
FormatRequest(colorFormat, depthFormat, stencilFormat, multisample) ==
    LET rgba == IF colorFormat = "RGB565" THEN <<5, 6, 5, 0>> ELSE <<8, 8, 8, 8>>
        depth0 == IF depthFormat = "16" THEN 16
                  ELSE IF depthFormat = "24" THEN 24 ELSE 0
        stencilBits == IF stencilFormat = "8" THEN 8 ELSE 0
        depthBits == IF stencilFormat = "8" /\ depth0 > 0 THEN 24 ELSE depth0
        samples == IF multisample = "4X" THEN 4 ELSE 0
    IN EGLConfig(rgba[1], rgba[2], rgba[3], rgba[4], depthBits, stencilBits, samples)

\* The selection before _glfmEGLInit runs: the request, the configurations
\* the device has, whether eglInitialize succeeds.
InitFmtOf(request, available, initialized) ==
    [request |-> request, available |-> available, initialized |-> initialized,
     pc |-> "loop", attribs |-> request, attempts |-> <<>>, eglConfig |-> <<>>]

InitFmt ==
    InitFmtOf(FormatRequest("RGBA8888", "None", "None", "None"), {}, TRUE)

InitOthers ==
    /\ rv = InitRv
    /\ enc = InitEnc
    /\ touch = InitTouch
    /\ pace = InitPace
    /\ fmt = InitFmt

Init ==
    /\ pd = InitPlatformData(0, 20)
    /\ win = InitWindow
    /\ running = TRUE
    /\ InitOthers

Next ==
    \/ CmdInitWindow
    \/ CmdTermWindow
    \/ CmdWindowRedrawNeeded
    \/ CmdGainedFocus
    \/ CmdLostFocus
    \/ CmdContentRectChanged
    \/ CmdLowMemory
    \/ CmdQuiet
    \/ CmdDestroy
    \/ Frame
    \/ AndroidMain

Spec == Init /\ [][Next]_vars

\* The resize debounce: a reliable EGL under a window that changes its size.
InitResize ==
    /\ pd = InitPlatformData(0, 20)
    /\ win = [InitWindow EXCEPT !.eglFails = FALSE, !.sizes = {Portrait, Landscape}]
    /\ running = TRUE
    /\ InitOthers

NextResize == Next \/ WindowSizeChanged

SpecResize == InitResize /\ [][NextResize]_vars

\* The lifecycle on a device that may have no configuration for the declared
\* pixel format.
InitConfig ==
    /\ pd = InitPlatformData(0, 20)
    /\ win \in {[InitWindow EXCEPT !.configs = b] : b \in BOOLEAN}
    /\ running = TRUE
    /\ InitOthers

SpecConfig == InitConfig /\ [][Next]_vars

\* The lifecycle for every preferred API, on devices where eglCreateContext
\* succeeds at any subset of the tiers.
InitTiers ==
    /\ pd \in {InitPlatformData(0, preferredAPI) : preferredAPI \in Tiers}
    /\ win \in {[InitWindow EXCEPT !.eglFails = FALSE, !.contexts = c] :
                   c \in SUBSET Tiers}
    /\ running = TRUE
    /\ InitOthers

SpecTiers == InitTiers /\ [][Next]_vars

\* ------------------------------------------------------------ the orientation report

\* The rotation that stands for a bridge that does not answer.
BridgeFailed == 4

\* The display is rotated, or the bridge stops or starts answering.
RotationChanged ==
    /\ \E r \in (Rotations \cup {BridgeFailed}) \ {win.rotation} :
          win' = [win EXCEPT !.rotation = r]
    /\ UNCHANGED <<pd, running, Others>>

InitOrientation ==
    /\ pd = InitPlatformData(0, 20)
    /\ win = [InitWindow EXCEPT !.eglFails = FALSE, !.sizes = {Portrait, Landscape}]
    /\ running = TRUE
    /\ InitOthers

NextOrientation ==
    \/ CmdInitWindow
    \/ CmdGainedFocus
    \/ CmdContentRectChanged
    \/ Frame
    \/ WindowSizeChanged
    \/ RotationChanged

SpecOrientation == InitOrientation /\ [][NextOrientation]_vars

\* ------------------------------------------------------------ frame pacing

\* Time is in whole microseconds.  What Display.getRefreshRate answers (0
\* stands for a failed call or an answer that is not positive), how long the
\* render callback runs before and after the swap it may make, and how much
\* longer than asked usleep sleeps.
RefreshRateAnswers == {0, 60, 120}
RenderTimes == {100, 9000}
Oversleeps == {0, 1, 600}

\* _glfmGetRefreshRate: 60 when the bridge fails or the rate is not positive.
glfmGetRefreshRate(answer) == IF answer <= 0 THEN 60 ELSE answer

\* 1.0 / (double)refreshRate, in microseconds.
RefreshPeriod(refreshRate) == 1000000 \div refreshRate

\* const double offset = 0.0005
PaceOffset == 500

PaceUnchanged == UNCHANGED <<pd, win, running, rv, enc, touch, fmt>>

\* Lines 1386-1387: swapCalled is cleared and the frame is drawn; the
\* embedder swaps during the render callback (glfmSwapBuffers sets swapCalled
\* and reads the clock into lastSwapTime) or does not.
PaceDraw ==
    /\ pace.pc = "draw" /\ pace.clock < MaxClock
    /\ \E before, after \in RenderTimes, swapped \in BOOLEAN :
          pace' = [pace EXCEPT
                     !.clock = @ + before + after,
                     !.swapCalled = swapped,
                     !.lastSwapTime = IF swapped THEN pace.clock + before ELSE @,
                     !.pc = IF swapped THEN "draw" ELSE "rate",
                     !.gPrevSwapTime = pace.lastSwapTime,
                     !.gExit = IF swapped THEN "swapped" ELSE "none",
                     !.gSlept = FALSE]
    /\ PaceUnchanged

\* Lines 1390-1394: the deadline, the clock, and the case of a deadline that
\* has passed already.
PaceDeadline ==
    /\ pace.pc = "rate"
    /\ \E answer \in RefreshRateAnswers :
          LET refreshRate == glfmGetRefreshRate(answer)
              sleepUntilTime == pace.lastSwapTime + RefreshPeriod(refreshRate)
              now == pace.clock
          IN pace' = [pace EXCEPT
                        !.sleepUntilTime = sleepUntilTime,
                        !.now = now,
                        !.gPeriod = RefreshPeriod(refreshRate),
                        !.lastSwapTime = IF now >= sleepUntilTime THEN now ELSE @,
                        !.pc = IF now >= sleepUntilTime THEN "draw" ELSE "loop",
                        !.gExit = IF now >= sleepUntilTime THEN "late" ELSE "none"]
    /\ PaceUnchanged

\* Lines 1398-1407, one pass of the loop: leave it, or sleep (usleep sleeps
\* at least as long as asked) and read the clock.
PaceLoop ==
    /\ pace.pc = "loop"
    /\ LET sleepDuration == pace.sleepUntilTime - pace.now - PaceOffset
       IN IF sleepDuration <= 0
          THEN pace' = [pace EXCEPT !.lastSwapTime = pace.sleepUntilTime,
                                    !.pc = "draw", !.gExit = "paced"]
          ELSE \E over \in Oversleeps :
                  pace' = [pace EXCEPT !.clock = @ + sleepDuration + over,
                                       !.now = pace.clock + sleepDuration + over,
                                       !.gSlept = TRUE]
    /\ PaceUnchanged

NextPacing ==
    \/ PaceDraw
    \/ PaceDeadline
    \/ PaceLoop

InitPacing ==
    /\ pd = InitPlatformData(0, 20)
    /\ win = InitWindow
    /\ running = TRUE
    /\ InitOthers

SpecPacing == InitPacing /\ [][NextPacing]_vars

\* ------------------------------------------------------------ configuration selection

\* The declared formats (GLFMColorFormat, GLFMDepthFormat, GLFMStencilFormat,
\* GLFMMultisample).
ColorFormats == {"RGBA8888", "RGB565"}
DepthFormats == {"None", "16", "24"}
StencilFormats == {"None", "8"}
Multisamples == {"None", "4X"}

\* The configurations devices are made of.
DeviceConfigs ==
    {EGLConfig(8, 8, 8, 8, 24, 8, 4), EGLConfig(8, 8, 8, 8, 24, 8, 0),
     EGLConfig(8, 8, 8, 8, 16, 0, 2), EGLConfig(5, 6, 5, 0, 16, 0, 0),
     EGLConfig(5, 6, 5, 0, 8, 8, 2), EGLConfig(8, 8, 8, 8, 0, 0, 0)}

\* eglChooseConfig's matching: every size at least the one asked for, and
\* sample buffers when samples are asked for.
ConfigMatches(c, attribs) ==
    /\ c.rBits >= attribs.rBits /\ c.gBits >= attribs.gBits
    /\ c.bBits >= attribs.bBits /\ c.aBits >= attribs.aBits
    /\ c.depthBits >= attribs.depthBits /\ c.stencilBits >= attribs.stencilBits
    /\ (attribs.samples > 0 => c.samples >= attribs.samples)

Matching(available, attribs) == {c \in available : ConfigMatches(c, attribs)}

\* eglChooseConfig(display, attribs, &eglConfig, 1, &numConfigs) at line 656:
\* the values of eglConfig and numConfigs after the call.  On a display that
\* is not initialized the call fails and writes neither: numConfigs is read
\* uninitialized at 657.
eglChooseConfig(v) ==
    IF v.initialized
    THEN IF Matching(v.available, v.attribs) = {}
         THEN {[numConfigs |-> 0, eglConfig |-> v.eglConfig]}
         ELSE {[numConfigs |-> 1, eglConfig |-> <<c>>] :
                  c \in Matching(v.available, v.attribs)}
    ELSE {[numConfigs |-> n, eglConfig |-> v.eglConfig] : n \in {0, 1}}

\* Lines 661-690: the next attributes to try, or the failure.
Relax(v) ==
    IF v.attribs.samples > 0
    THEN [v EXCEPT !.attribs.samples = @ - 2]
    ELSE IF v.attribs.depthBits > 8
    THEN [v EXCEPT !.attribs.depthBits = @ - 8]
    ELSE [v EXCEPT !.pc = "failed"]

\* One pass of the loop at 642-691.
ChooseConfigAttempt ==
    /\ fmt.pc = "loop"
    /\ \E r \in eglChooseConfig(fmt) :
          LET v == [fmt EXCEPT !.attempts = Append(@, fmt.attribs),
                               !.eglConfig = r.eglConfig]
          IN fmt' = IF r.numConfigs # 0 THEN [v EXCEPT !.pc = "found"] ELSE Relax(v)
    /\ UNCHANGED <<pd, win, running, rv, enc, touch, pace>>

InitFormat ==
    /\ pd = InitPlatformData(0, 20)
    /\ win = InitWindow
    /\ running = TRUE
    /\ rv = InitRv /\ enc = InitEnc /\ touch = InitTouch /\ pace = InitPace
    /\ fmt \in {InitFmtOf(FormatRequest(c, d, st, m), available, initialized) :
                   c \in ColorFormats, d \in DepthFormats, st \in StencilFormats,
                   m \in Multisamples, available \in SUBSET DeviceConfigs,
                   initialized \in BOOLEAN}

NextFormat == ChooseConfigAttempt

SpecFormat == InitFormat /\ [][NextFormat]_vars

\* ------------------------------------------------------------ the content-rect rendezvous

RvOthers == <<pd, win, running, enc, touch, pace, fmt>>

\* _glfmSetContentRect on the event thread (the activity's main thread), one
\* step per statement.
EventCall ==
    /\ rv.epc = "idle" /\ rv.calls < MaxCalls
    /\ \E r \in RvRects :
          rv' = [rv EXCEPT !.epc = "lock", !.erect = r, !.gPrev = rv.erect,
                           !.calls = @ + 1, !.gWaited = FALSE]
    /\ UNCHANGED RvOthers

EventLock ==
    /\ rv.epc = "lock" /\ rv.mutex = "free"
    /\ rv' = [rv EXCEPT !.mutex = "event", !.epc = "set"]
    /\ UNCHANGED RvOthers

EventSetPending ==
    /\ rv.epc = "set"
    /\ rv' = [rv EXCEPT !.pendingContentRect = rv.erect, !.epc = "write"]
    /\ UNCHANGED RvOthers

EventWriteCmd ==
    /\ rv.epc = "write" /\ rv.pipe < MaxPending
    /\ rv' = [rv EXCEPT !.pipe = @ + 1, !.epc = "check"]
    /\ UNCHANGED RvOthers

EventCheck ==
    /\ rv.epc = "check"
    /\ rv' = SetContentRectCheck(rv)
    /\ UNCHANGED RvOthers

\* pthread_cond_wait returns after the broadcast, or spuriously; either way
\* it takes the mutex again before it returns.
EventWake ==
    /\ rv.epc = "wait" /\ rv.signal
    /\ rv' = [rv EXCEPT !.epc = "relock", !.signal = FALSE]
    /\ UNCHANGED RvOthers

EventSpuriousWake ==
    /\ rv.epc = "wait" /\ ~rv.signal
    /\ rv' = [rv EXCEPT !.epc = "relock"]
    /\ UNCHANGED RvOthers

EventRelock ==
    /\ rv.epc = "relock" /\ rv.mutex = "free"
    /\ rv' = [rv EXCEPT !.mutex = "event", !.epc = "check"]
    /\ UNCHANGED RvOthers

EventUnlock ==
    /\ rv.epc = "unlock"
    /\ rv' = [rv EXCEPT !.mutex = "free", !.epc = "idle"]
    /\ UNCHANGED RvOthers

\* APP_CMD_CONTENT_RECT_CHANGED on the render thread, one step per statement.
RenderReadCmd ==
    /\ rv.rpc = "poll" /\ rv.pipe > 0
    /\ rv' = [rv EXCEPT !.pipe = @ - 1, !.rpc = "lock"]
    /\ UNCHANGED RvOthers

RenderLock ==
    /\ rv.rpc = "lock" /\ rv.mutex = "free"
    /\ rv' = [rv EXCEPT !.mutex = "render", !.rpc = "copy"]
    /\ UNCHANGED RvOthers

RenderCopy ==
    /\ rv.rpc = "copy"
    /\ rv' = [rv EXCEPT !.contentRect = rv.pendingContentRect, !.rpc = "broadcast"]
    /\ UNCHANGED RvOthers

RenderBroadcast ==
    /\ rv.rpc = "broadcast"
    /\ rv' = [rv EXCEPT !.signal = (rv.epc = "wait"), !.rpc = "unlock"]
    /\ UNCHANGED RvOthers

RenderUnlock ==
    /\ rv.rpc = "unlock"
    /\ rv' = [rv EXCEPT !.mutex = "free", !.rpc = "poll"]
    /\ UNCHANGED RvOthers

InitRect ==
    /\ pd = InitPlatformData(0, 20)
    /\ win = InitWindow
    /\ running = TRUE
    /\ InitOthers

NextRect ==
    \/ EventCall
    \/ EventLock
    \/ EventSetPending
    \/ EventWriteCmd
    \/ EventCheck
    \/ EventWake
    \/ EventSpuriousWake
    \/ EventRelock
    \/ EventUnlock
    \/ RenderReadCmd
    \/ RenderLock
    \/ RenderCopy
    \/ RenderBroadcast
    \/ RenderUnlock

SpecRect == InitRect /\ [][NextRect]_vars

\* The rendezvous under scheduling: each thread that can take a step takes
\* one, and a thread blocked in pthread_mutex_lock gets the mutex when it is
\* released again and again.  A new call and a spurious wake-up are never
\* forced.
SpecRectFair ==
    /\ SpecRect
    /\ WF_vars(RenderReadCmd \/ RenderCopy \/ RenderBroadcast \/ RenderUnlock)
    /\ SF_vars(RenderLock)
    /\ WF_vars(EventSetPending \/ EventWriteCmd \/ EventCheck \/ EventWake \/ EventUnlock)
    /\ SF_vars(EventLock \/ EventRelock)

\* ------------------------------------------------------------ text input, as a function

\* The arguments tried: the limits of each length and their neighbours, the
\* surrogates' edge, U+1F600, and values past the last code point.
CodePoints ==
    {0, 1, 32, 65, 127, 128, 129, 255, 937, 2047, 2048, 2049, 8364,
     55295, 55296, 65533, 65535, 65536, 65537, 128512, 262144, 1114111,
     1114112, 2147483647}

UnicodeToUTF8 ==
    /\ \E u \in CodePoints :
          enc' = [unicode |-> u, utf8 |-> glfmUnicodeToUTF8(enc.utf8, u),
                  called |-> TRUE]
    /\ UNCHANGED <<pd, win, running, rv, touch, pace, fmt>>

InitUTF8 ==
    /\ pd = InitPlatformData(0, 20)
    /\ win = InitWindow
    /\ running = TRUE
    /\ InitOthers

NextUTF8 == UnicodeToUTF8

SpecUTF8 == InitUTF8 /\ [][NextUTF8]_vars

\* ------------------------------------------------------------ key input, as events

\* The key codes tried: none, back, the last digit, and the code before the
\* letters, which maps to no key.
KeyCodes == {0, AKEYCODE_BACK, AKEYCODE_9, AKEYCODE_A - 1}

\* The key actions tried: the three the NDK defines and one it does not.
KeyActions == {AKEY_EVENT_ACTION_DOWN, AKEY_EVENT_ACTION_UP,
               AKEY_EVENT_ACTION_MULTIPLE, 3}

\* The code points the lookup answers: a failed lookup, the last control
\* character, a space, a three-byte character and the first value past
\* U+10FFFF (a negative jint as (uint32_t) is larger still).
KeyCodePoints == {0, 31, 32, 8364, 1114112}

\* The events tried.  A field the handler does not read for an event has one
\* value: the repeat count of a key-up, the code point where the text path
\* does not look it up, the embedder's answer where no key callback is
\* invoked, the bridge where the back button is not handled.
KeyEvents ==
    {ev \in [keyCode : KeyCodes, action : KeyActions, repeatCount : 0 .. MaxRepeat,
             unicode : KeyCodePoints, keyFunc : BOOLEAN, charFunc : BOOLEAN,
             consume : BOOLEAN, back : {"pending", "fails", "ok"}] :
        /\ ev.action \notin {AKEY_EVENT_ACTION_DOWN, AKEY_EVENT_ACTION_MULTIPLE}
              => ev.repeatCount = 0
        /\ ~(ev.charFunc /\ ev.action \in {AKEY_EVENT_ACTION_DOWN,
                                            AKEY_EVENT_ACTION_MULTIPLE})
              => ev.unicode = 0
        /\ ~(ev.keyFunc /\ KeyOfKeyCode(ev.keyCode) # 0 /\ ev.action # 3)
              => ~ev.consume
        /\ ~(ev.keyFunc /\ ev.keyCode = AKEYCODE_BACK
                /\ ev.action = AKEY_EVENT_ACTION_UP /\ ~ev.consume)
              => ev.back = "ok"}

\* A key event is handed to _glfmOnInputEvent.
KeyEvent ==
    /\ running
    /\ \E ev \in KeyEvents :
          /\ pd' = End(OnKeyEvent(Begin(pd, "KEY"), enc.utf8, ev))
          /\ enc' = [enc EXCEPT !.utf8 = OnKeyEventBuffer(enc.utf8, ev)]
    /\ UNCHANGED <<win, running, rv, touch, pace, fmt>>

InitKeys ==
    /\ pd = InitPlatformData(0, 20)
    /\ win = InitWindow
    /\ running = TRUE
    /\ InitOthers

NextKeys == KeyEvent

SpecKeys == InitKeys /\ [][NextKeys]_vars

\* ------------------------------------------------------------ touch input, as events

\* The pointer ids tried: one below the slots, the first two slots, the last
\* slot, one past the slots.
PointerIds ==
    {-1, 0, 1, MAX_SIMULTANEOUS_TOUCHES - 1, MAX_SIMULTANEOUS_TOUCHES}

\* The pointers of an event: up to MaxPointers of them, with distinct ids.
PointerLists ==
    UNION {{ps \in [1 .. n -> PointerIds] :
               \A j, k \in 1 .. n : j # k => ps[j] # ps[k]} : n \in 1 .. MaxPointers}

\* The pointer index in the action of an event: any pointer for
\* POINTER_DOWN and POINTER_UP, the first one for every other action.
PointerIndexes(maskedAction, ps) ==
    IF maskedAction \in {"POINTER_DOWN", "POINTER_UP"} THEN 1 .. Len(ps) ELSE {1}

\* A motion event is handed to _glfmOnInputEvent.
MotionEvent ==
    /\ running
    /\ \E a \in MotionActions, ps \in PointerLists :
          \E i \in PointerIndexes(a, ps) :
             /\ touch' = [action |-> a, pointers |-> ps, index |-> i]
             /\ pd' \in {End(t) : t \in OnMotionEvent(Begin(pd, "MOTION"), a, ps, i)}
    /\ UNCHANGED <<win, running, rv, enc, pace, fmt>>

\* The embedder calls glfmSetMultitouchEnabled between two events (from
\* another of its callbacks).
SetMultitouchEnabled ==
    /\ running
    /\ \E b \in BOOLEAN :
          pd' = End(glfmSetMultitouchEnabled(Begin(pd, "glfmSetMultitouchEnabled"), b))
    /\ UNCHANGED <<win, running, rv, enc, touch, pace, fmt>>

InitTouchSpec ==
    /\ pd = InitPlatformData(0, 20)
    /\ win = InitWindow
    /\ running = TRUE
    /\ InitOthers

NextTouch == MotionEvent \/ SetMultitouchEnabled

SpecTouch == InitTouchSpec /\ [][NextTouch]_vars

\* ------------------------------------------------------------ keyboard visibility

\* The content rects and the visible display frames the platform reports, and
\* the densities of the configuration.
WindowRects == {ARect(0, 0, 1000, 2000), ARect(0, 0, 2000, 1000)}

VisibleRects ==
    {ARect(l, t, r, b) : l \in {0, 100}, t \in {0, 63}, r \in {1000, 700},
                         b \in {2000, 1901, 1900, 1800, 1738, 1737, 1500}}

Densities == {0, 1, 160, 420}

InitKeyboard ==
    /\ pd = InitPlatformData(0, 20)
    /\ win \in {[InitWindow EXCEPT !.eglFails = FALSE, !.bridgeOk = TRUE,
                                   !.visible = v, !.density = d,
                                   !.rects = WindowRects] :
                   v \in VisibleRects, d \in Densities}
    /\ running = TRUE
    /\ InitOthers

NextKeyboard == CmdContentRectChanged

SpecKeyboard == InitKeyboard /\ [][NextKeyboard]_vars

\* The notifications of a keyboard that comes and goes: the visible display
\* frames the bridge reports (none, a keyboard at the bottom, a taller one),
\* an embedder that sets and clears its callback.
KeyboardFrames ==
    {ARect(0, 0, 1000, 2000), ARect(0, 0, 1000, 1500), ARect(0, 0, 1000, 1200)}

\* The soft keyboard is shown, hidden or resized.
VisibleFrameChanged ==
    /\ \E v \in KeyboardFrames \ {win.visible} :
          win' = [win EXCEPT !.visible = v]
    /\ UNCHANGED <<pd, running, Others>>

\* glfmSetKeyboardVisibilityChangedFunc(display, func), func NULL or not.
SetKeyboardVisibilityChangedFunc ==
    /\ \E registered \in BOOLEAN \ {pd.keyboardVisibilityChangedFunc} :
          pd' = [pd EXCEPT !.keyboardVisibilityChangedFunc = registered]
    /\ UNCHANGED <<win, running, Others>>

InitVisibility ==
    /\ pd = InitPlatformData(0, 20)
    /\ win \in {[InitWindow EXCEPT !.eglFails = FALSE, !.bridgeOk = TRUE,
                                   !.visible = v, !.rects = WindowRects] :
                   v \in KeyboardFrames}
    /\ running = TRUE
    /\ InitOthers

NextVisibility ==
    \/ CmdContentRectChanged
    \/ VisibleFrameChanged
    \/ SetKeyboardVisibilityChangedFunc

SpecVisibility == InitVisibility /\ [][NextVisibility]_vars

\* A rotation with the keyboard shown or hidden: the window size, the display
\* rotation and the visible display frame change between the commands.
InitLayout ==
    /\ pd = InitPlatformData(0, 20)
    /\ win \in {[InitWindow EXCEPT !.eglFails = FALSE, !.bridgeOk = TRUE,
                                   !.sizes = {Portrait, Landscape}, !.visible = v] :
                   v \in KeyboardFrames}
    /\ running = TRUE
    /\ InitOthers

NextLayout ==
    \/ CmdInitWindow
    \/ CmdContentRectChanged
    \/ WindowSizeChanged
    \/ RotationChanged
    \/ VisibleFrameChanged

SpecLayout == InitLayout /\ [][NextLayout]_vars

\* ------------------------------------------------------------ sensors, as events

\* The sensors the embedder registers callbacks for, the sensors the device
\* has (_glfmGetDeviceSensor is not NULL), and the raw events <<sensor, x>>
\* the device produces: two values of the accelerometer, one of the
\* magnetometer.
RegistrableSensors == {0, 1, 2}
DeviceSensors == {0, 1}
RawEvents == {<<0, 1>>, <<0, 2>>, <<1, 1>>}

\* The embedder registers or unregisters a sensor callback.
SetSensorFunc ==
    /\ running
    /\ \E i \in RegistrableSensors, b \in BOOLEAN :
          pd' \in {End(t) : t \in glfmSetSensorFunc(Begin(pd, "glfmSetSensorFunc"), i, b)}
    /\ UNCHANGED <<win, running, Others>>

\* A sensor the device has enabled puts a raw sample in the event queue.
SensorSample ==
    /\ running /\ pd.sensorEventQueue
    /\ Len(win.queue) < MaxQueued
    /\ \E event \in RawEvents :
          /\ pd.deviceSensorEnabled[event[1]]
          /\ win' = [win EXCEPT !.queue = Append(@, event)]
    /\ UNCHANGED <<pd, running, Others>>

\* The looper reports the sensor event queue and the poll cycle gets the
\* first k samples waiting (the rest arrive after its last getEvents).
SensorPoll ==
    /\ running /\ pd.sensorEventQueue
    /\ \E k \in 1 .. Len(win.queue) :
          /\ pd' = End(OnSensorEvents(Begin(pd, "SENSOR"), SubSeq(win.queue, 1, k)))
          /\ win' = [win EXCEPT !.queue = SubSeq(@, k + 1, Len(@))]
    /\ UNCHANGED <<running, Others>>

InitSensors ==
    /\ pd = InitPlatformData(0, 20)
    /\ win = [InitWindow EXCEPT !.eglFails = FALSE, !.sensors = DeviceSensors]
    /\ running = TRUE
    /\ InitOthers

\* The commands that change animating (_glfmSetAnimating is called nowhere
\* else), the registrations and the sensor events.
NextSensors ==
    \/ CmdGainedFocus
    \/ CmdLostFocus
    \/ CmdTermWindow
    \/ CmdDestroy
    \/ AndroidMain
    \/ SetSensorFunc
    \/ SensorSample
    \/ SensorPoll

SpecSensors == InitSensors /\ [][NextSensors]_vars

\* The teardown: sensors registered and enabled, a window, frames, and the
\* destroy that ends the main loop.
NextDestroy ==
    \/ CmdInitWindow
    \/ CmdGainedFocus
    \/ CmdTermWindow
    \/ CmdDestroy
    \/ AndroidMain
    \/ Frame
    \/ SetSensorFunc

SpecDestroy == InitSensors /\ [][NextDestroy]_vars

\* ------------------------------------------------------------ lifecycle claims

\* C1: the lifecycle is Animating only after a window-init command produced a
\* ready window (surface created, context current) that has not since been
\* terminated; a gained-focus command before any window-init, or after
\* window-terminated, does not make the state Animating.
C1_AnimatingOnlyWhenWindowReady == pd.animating => pd.gWindowReady

\* C2: surface-created and surface-destroyed strictly alternate, starting with
\* surface-created: surface-destroyed fires only when a surface-created has
\* fired since the previous surface-destroyed, and surface-created only when
\* none has.
C2_SurfaceCallbacksAlternate ==
    \A i \in DOMAIN pd.cb :
        /\ pd.cb[i].f = "surfaceDestroyed" => pd.cb[i].live
        /\ pd.cb[i].f = "surfaceCreated" => ~pd.cb[i].live

\* C3: surface-created fires at most once per context lifetime and before the
\* first render callback of that context: no render callback is invoked for a
\* context for which surface-created has not been delivered.
C3_SurfaceCreatedBeforeRender ==
    \A i \in DOMAIN pd.cb :
        /\ (pd.cb[i].f = "render" /\ pd.cb[i].ctx) => pd.cb[i].ann
        /\ pd.cb[i].f = "surfaceCreated" => ~pd.cb[i].ann

\* C4: whenever the render callback or the refresh callback is invoked, the
\* context-current flag is true and the display, surface and context handles
\* are all valid.
C4_RenderOnlyWithValidContext ==
    \A i \in DOMAIN pd.cb :
        pd.cb[i].f \in {"render", "refresh"} =>
            pd.cb[i].cur /\ pd.cb[i].dpy /\ pd.cb[i].surf /\ pd.cb[i].ctx

\* C6: after the live surface size starts to differ from the recorded one, the
\* resize callback is not fired before 5 drawn frames have elapsed since that
\* change, unless a content-rect-changed command arrives.
C6_ResizeDebounced ==
    \A i \in DOMAIN pd.cb :
        (pd.cb[i].f = "resize" /\ pd.cb[i].cmd # "CONTENT_RECT_CHANGED") =>
            pd.cb[i].mf >= RESIZE_EVENT_MAX_WAIT_FRAMES

C5_ContentRectRendezvous ==
    (rv.epc = "idle" /\ rv.calls > 0) => ARectsEqual(rv.contentRect, rv.erect)

\* C5's case: a second call, with a rectangle other than the first one's, has
\* waited for the render thread and returned.
C5_Witness ==
    /\ rv.epc = "idle" /\ rv.calls >= 2 /\ rv.gWaited
    /\ ~ARectsEqual(rv.erect, rv.gPrev)
    /\ ARectsEqual(rv.contentRect, rv.erect)

StandardUTF8(u) ==
    IF u < 128 THEN <<u>>
    ELSE IF u < 2048 THEN <<192 + (u \div 64), 128 + (u % 64)>>
    ELSE IF u < 65536
    THEN <<224 + (u \div 4096), 128 + ((u \div 64) % 64), 128 + (u % 64)>>
    ELSE <<240 + (u \div 262144), 128 + ((u \div 4096) % 64),
           128 + ((u \div 64) % 64), 128 + (u % 64)>>

\* C8: _glfmUnicodeToUTF8 returns, for every code point, the standard UTF-8
\* encoding: 1 byte below 0x80, 2 below 0x800, 3 below 0x10000, 4 below
\* 0x110000, NUL-terminated; 0x1F600 encodes to F0 9F 98 80.
C8_StandardUTF8 ==
    (enc.called /\ enc.unicode < 1114112) =>
        LET expected == StandardUTF8(enc.unicode)
            n == Len(expected)
        IN /\ n = (IF enc.unicode < 128 THEN 1 ELSE IF enc.unicode < 2048 THEN 2
                   ELSE IF enc.unicode < 65536 THEN 3 ELSE 4)
           /\ SubSeq(enc.utf8, 1, n) = expected
           /\ enc.utf8[n + 1] = 0
           /\ \A k \in 2 .. n : enc.utf8[k] \in 128 .. 191
           /\ enc.unicode = 128512 => SubSeq(enc.utf8, 1, 4) = <<240, 159, 152, 128>>

\* C8's case: the call for U+1F600 has returned its four bytes.
C8_Witness ==
    enc.called /\ enc.unicode = 128512 /\ enc.utf8 = <<240, 159, 152, 128, 0>>

\* The bands of the last keyboard check and the area of one.
KbBands == nonVisibleRect(pd.contentRect, win.visible)

KbArea(r) == RectW(r) * RectH(r)

\* The largest integer not above 100 x display scale.
KbThreshold ==
    CHOOSE t \in 0 .. 1000 :
        /\ t * 160 <= 100 * ScaleNum(win.density)
        /\ (t + 1) * 160 > 100 * ScaleNum(win.density)

\* The content-rect-changed handler has run.
KbChecked == pd.contentRect \in win.rects

\* C9 as stated: the keyboard frame is the band of largest area among those
\* whose width and height both exceed 100 x display scale, and the keyboard
\* is visible exactly when such a band exists; window (0,0,1000,2000) with
\* visible frame (0,0,1000,1500) gives visible with frame (0,1500,1000,2000).
C9_KeyboardHeuristicExceeds ==
    KbChecked =>
        LET Q == {i \in 1 .. 4 :
                     /\ RectW(KbBands[i]) * 160 > 100 * ScaleNum(win.density)
                     /\ RectH(KbBands[i]) * 160 > 100 * ScaleNum(win.density)}
        IN /\ pd.keyboardVisible <=> Q # {}
           /\ pd.keyboardVisible =>
                 \E i \in Q : /\ pd.keyboardFrame = KbBands[i]
                              /\ \A j \in Q : KbArea(KbBands[j]) <= KbArea(KbBands[i])
           /\ (pd.contentRect = ARect(0, 0, 1000, 2000)
               /\ win.visible = ARect(0, 0, 1000, 1500)) =>
                 pd.keyboardVisible /\ pd.keyboardFrame = ARect(0, 1500, 1000, 2000)

\* C9, amended: the keyboard frame is the band of largest area (the first in
\* the order left, right, top, bottom among equals) among the bands of
\* positive area whose width and height are both at least the truncation of
\* 100 x display scale to an integer; the keyboard is visible exactly when
\* such a band exists, and the frame is the zero rectangle when it is not;
\* the example of the claim gives visible with frame (0,1500,1000,2000).
C9_KeyboardHeuristicAtLeast ==
    KbChecked =>
        LET Q == {i \in 1 .. 4 :
                     /\ RectW(KbBands[i]) >= KbThreshold
                     /\ RectH(KbBands[i]) >= KbThreshold
                     /\ KbArea(KbBands[i]) > 0}
        IN /\ pd.keyboardVisible <=> Q # {}
           /\ pd.keyboardVisible =>
                 \E i \in Q :
                    /\ pd.keyboardFrame = KbBands[i]
                    /\ \A j \in Q : /\ KbArea(KbBands[j]) <= KbArea(KbBands[i])
                                    /\ KbArea(KbBands[j]) = KbArea(KbBands[i]) => i <= j
           /\ ~pd.keyboardVisible => pd.keyboardFrame = ZeroRect
           /\ (pd.contentRect = ARect(0, 0, 1000, 2000)
               /\ win.visible = ARect(0, 0, 1000, 1500)) =>
                 pd.keyboardVisible /\ pd.keyboardFrame = ARect(0, 1500, 1000, 2000)

\* C9's case: the example of the claim has been checked and found visible,
\* with the bottom band as the frame.
C9_Witness ==
    /\ pd.contentRect = ARect(0, 0, 1000, 2000)
    /\ win.visible = ARect(0, 0, 1000, 1500)
    /\ pd.keyboardVisible
    /\ pd.keyboardFrame = ARect(0, 1500, 1000, 2000)

\* ------------------------------------------------------------ lost focus

\* The state with its callback log left out.
NoLog(s) == [s EXCEPT !.cb = <<>>]

\* C11: a lost-focus command received while animating invokes the render
\* callback exactly once, preceded by the refresh callback, before animating
\* is flipped to false and before the focus(false) callback; received while
\* not animating it invokes no callback and changes no state.
C11_FinalRenderOnLostFocus ==
    [][CmdLostFocus =>
          LET cb == pd'.cb
              renders == {i \in DOMAIN cb : cb[i].f = "render"}
          IN IF pd.animating
             THEN /\ Cardinality(renders) = 1
                  /\ ~pd'.animating
                  /\ \A r \in renders :
                        /\ \E i \in DOMAIN cb : i < r /\ cb[i].f = "refresh"
                        /\ \A i \in DOMAIN cb : cb[i].f = "focus" =>
                              i > r /\ cb[i].a = <<FALSE>>
             ELSE cb = <<>> /\ NoLog(pd') = NoLog(pd)]_vars

\* ------------------------------------------------------------ sensor claims

C13_OneCallbackPerSensorLatestWins ==
    \A i \in Sensors :
        LET calls == {j \in DOMAIN pd.cb : pd.cb[j].f = "sensor" /\ pd.cb[j].a[1] = i}
            got == {k \in DOMAIN pd.cb : pd.cb[k].f = "getEvents" /\ pd.cb[k].a[1] = i}
        IN /\ Cardinality(calls) <= 1
           /\ got = {} => calls = {}
           /\ \A j \in calls :
                 /\ pd.cb[j].reg[i]
                 /\ \A k \in got : k < j
                 /\ \E last \in got :
                       /\ \A k \in got : k <= last
                       /\ pd.cb[j].a[2] = SensorConvert(i, pd.cb[last].a[2])

\* C13's case: a poll cycle drained two different samples of the
\* accelerometer and invoked its callback once, with the second.
C13_Witness ==
    /\ Len(pd.cb) = 3
    /\ pd.cb[1].f = "getEvents" /\ pd.cb[1].a = <<0, 1>>
    /\ pd.cb[2].f = "getEvents" /\ pd.cb[2].a = <<0, 2>>
    /\ pd.cb[3].f = "sensor" /\ pd.cb[3].a = <<0, SensorConvert(0, 2)>>

\* C14: once a sensor is not in the enabled state (animating is false or its
\* callback is unregistered) its last-valid flag is false and stays false
\* until the sensor is enabled again, and no sample is delivered to its
\* callback while it is not enabled, even if raw samples are still queued
\* from before the disable.  (Stated for the sensors whose disable requests
\* have all succeeded: the sensor is then not device-enabled either.)
C14_NoStaleSamples ==
    /\ \A i \in Sensors :
          (~(pd.sensorFuncs[i] /\ pd.animating) /\ ~pd.deviceSensorEnabled[i])
              => ~pd.sensorEventValid[i]
    /\ \A j \in DOMAIN pd.cb :
          (pd.cb[j].f = "sensor" /\ ~pd.deviceSensorEnabled[pd.cb[j].a[1]])
              => pd.cb[j].anim /\ pd.cb[j].reg[pd.cb[j].a[1]]

\* ------------------------------------------------------------ teardown and recovery claims

\* The number of invocations of callback f in a log.
Count(cb, f) == Cardinality({j \in DOMAIN cb : cb[j].f = f})

\* C15: _glfmEGLDestroy is idempotent: called from any state the program
\* reaches, it leaves the display, context and surface handles null and the
\* context-current flag false and fires surface-destroyed exactly once if a
\* context existed and never otherwise; a second call in a row fires no
\* callback and changes no state.
C15_DestroyIdempotent ==
    LET s0 == Begin(pd, "DESTROY")
        s1 == glfmEGLDestroy(s0)
        s2 == glfmEGLDestroy(s1)
    IN /\ ~s1.eglDisplay /\ ~s1.eglContext /\ ~s1.eglSurface /\ ~s1.eglContextCurrent
       /\ Count(s1.cb, "surfaceDestroyed") = IF pd.eglContext THEN 1 ELSE 0
       /\ Len(s1.cb) = Count(s1.cb, "surfaceDestroyed")
       /\ s2 = s1

\* C15's case: the destroy command and the exit of the main loop have called
\* _glfmEGLDestroy twice in a row on a state with a context, and
\* surface-destroyed was fired once.
C15_Witness ==
    /\ ~running
    /\ ~pd.eglDisplay /\ ~pd.eglContext /\ ~pd.eglSurface /\ ~pd.eglContextCurrent
    /\ Count(pd.cb, "surfaceDestroyed") = 1
    /\ \E j \in DOMAIN pd.cb :
          pd.cb[j].f = "surfaceDestroyed" /\ pd.cb[j].cmd = "DESTROY" /\ pd.cb[j].ctx

\* The names of the callbacks of a log, in order.
Fired(cb) == [j \in DOMAIN cb |-> cb[j].f]

\* The state with its log, its scratch fields and its history left out.
Core(s) ==
    [s EXCEPT !.cb = <<>>, !.ret = FALSE, !.faults = 0, !.gUnchecked = FALSE,
              !.gAnnounced = FALSE, !.gSurfLive = FALSE]

\* C16: _glfmEGLCheckError treats the last error as exactly one of three
\* cases.  EGL_BAD_SURFACE: only the surface is destroyed and created again,
\* the display and context handles are kept and no callback fires.
\* EGL_CONTEXT_LOST or EGL_BAD_CONTEXT: only the context is dropped and created
\* again, the display and surface handles are kept, surface-destroyed fires
\* for the dropped context and then, exactly when a new context is created
\* and becomes current, surface-created.  Any other code: everything is torn down
\* (surface-destroyed fires if a context existed) and initialization starts
\* from scratch, as from a state with no display, surface or context.
C16_ErrorClassification ==
    LET s == Begin(pd, "recover")
        torn == [s EXCEPT !.eglDisplay = FALSE, !.eglContext = FALSE,
                          !.eglSurface = FALSE, !.eglContextCurrent = FALSE]
        dropped == IF s.eglContext THEN <<"surfaceDestroyed">> ELSE <<>>
    IN /\ \A t \in glfmEGLCheckError(s, ErrSurface) :
             /\ t.eglDisplay = s.eglDisplay
             /\ t.eglContext = s.eglContext /\ t.renderingAPI = s.renderingAPI
             /\ t.cb = <<>>
       /\ \A t \in glfmEGLCheckError(s, ErrContext) :
             /\ t.eglDisplay = s.eglDisplay
             /\ t.eglSurface = s.eglSurface
             /\ Fired(t.cb) = dropped \o (IF t.eglContext /\ t.eglContextCurrent
                                          THEN <<"surfaceCreated">> ELSE <<>>)
       /\ \A t \in glfmEGLCheckError(s, ErrOther) :
             \E u \in glfmEGLInit(torn) :
                   /\ Core(u) = Core(t)
                   /\ Fired(t.cb) = (IF s.eglDisplay /\ s.eglContext
                                     THEN <<"surfaceDestroyed">> ELSE <<>>) \o Fired(u.cb)

\* C16's case: a buffer swap failed with a lost context in a render callback;
\* surface-destroyed and then surface-created were fired, and the surface was
\* kept.
C16_Witness ==
    \E j \in DOMAIN pd.cb :
        /\ pd.cb[j].f = "glfmSwapBuffers" /\ pd.cb[j].a = <<FALSE>>
        /\ j + 2 \in DOMAIN pd.cb
        /\ pd.cb[j + 1].f = "surfaceDestroyed" /\ pd.cb[j + 1].surf
        /\ pd.cb[j + 2].f = "surfaceCreated" /\ pd.cb[j + 2].surf /\ pd.cb[j + 2].cur

\* C17: every failing eglSwapBuffers and every failing bind (the
\* eglMakeCurrent of _glfmEGLContextInit), a bind that fails inside a recovery
\* attempt or inside re-initialization included, is followed by a run of
\* _glfmEGLCheckError: no handler ends with a failed bind or swap that no
\* classification has followed.
C17_EveryFailureClassified == ~pd.gUnchecked

\* C18: when the configuration selection of _glfmEGLInit finds no
\* configuration after full relaxation, the call returns false with the
\* display handle reset, no surface and the context not current, and fires no
\* callback; while that is the last selection's result the display, the
\* surface and the current flag stay unset, no render callback is invoked by
\* any handler, and a window-init handler invokes no callback at all (a render
\* callback that was executing when the selection failed returns).
C18_ConfigurationExhausted ==
    /\ pd.gExhausted => ~pd.eglDisplay /\ ~pd.eglSurface /\ ~pd.eglContextCurrent
    /\ \A j \in DOMAIN pd.cb :
          /\ pd.cb[j].f = "render" => ~pd.cb[j].exh
          /\ pd.cb[j].cmd = "INIT_WINDOW" /\ pd.cb[j].exh
                => pd.cb[j].f \in {"glfmSwapBuffers", "renderReturn"}
    /\ ~pd.eglDisplay =>
          \A t \in glfmEGLInit(Begin(pd, "INIT_WINDOW")) :
              t.gExhausted => /\ ~t.ret /\ t.cb = <<>>
                              /\ ~t.eglDisplay /\ ~t.eglSurface /\ ~t.eglContextCurrent

\* C18's case: no configuration matched at the last window-init, and the
\* application has since gained focus and asked for a redraw: a frame would
\* be drawn if a context were current.
C18_Witness == pd.gExhausted /\ pd.animating /\ pd.refreshRequested

\* C19: embedder callbacks never overlap: while the render callback is
\* executing (between its invocation and its return) no embedder callback is
\* invoked; in particular a glfmSwapBuffers that fails inside it fires neither
\* surface-destroyed nor surface-created before the render callback returns.
C19_CallbacksNeverOverlap ==
    \A j \in DOMAIN pd.cb :
        pd.cb[j].inRender => pd.cb[j].f \in {"glfmSwapBuffers", "renderReturn"}

\* C20: the render callback is never invoked in a state where the animating
\* flag is false, whatever the sequence of commands.
C20_RenderOnlyWhileAnimating ==
    \A j \in DOMAIN pd.cb : pd.cb[j].f = "render" => pd.cb[j].anim

\* ------------------------------------------------------------ frame claims

C22_ContextCurrentOnlyWhileActive ==
    [][/\ pd'.eglContextCurrent => pd'.eglSurface /\ pd'.eglContext
       /\ (\/ CmdLostFocus
           \/ CmdTermWindow
           \/ CmdDestroy
           \/ Handle("PAUSE", LAMBDA s : {s})) => ~pd'.eglContextCurrent]_vars

\* ------------------------------------------------------------ key claims

\* Whether the last handler handled a key event, and that event.
KeyHandled == pd.cb # <<>> /\ pd.cb[1].f = "keyEvent"

KeyEv == pd.cb[1].a[1]

\* The arguments of the invocations of callback f in a log, in order.
Calls(cb, f) ==
    LET sel == SelectSeq(cb, LAMBDA e : e.f = f)
    IN [j \in DOMAIN sel |-> sel[j].a]

\* C23: with a key callback registered, a key-up of a mapped key invokes it
\* exactly once, with Released; a key-down exactly once, with Pressed when
\* the repeat count is 0 and Repeated when it is greater; a multiple action
\* with repeat count n invokes it 2n times, Pressed and Released in turn;
\* an event whose key code maps to no key invokes no key callback.
C23_KeyActionSemantics ==
    KeyHandled /\ KeyEv.keyFunc =>
        LET ev == KeyEv
            key == KeyOfKeyCode(ev.keyCode)
            calls == [j \in DOMAIN Calls(pd.cb, "key") |->
                         <<Calls(pd.cb, "key")[j][1], Calls(pd.cb, "key")[j][2]>>]
        IN IF key = 0 THEN calls = <<>>
           ELSE IF ev.action = AKEY_EVENT_ACTION_UP
           THEN calls = << <<key, "Released">> >>
           ELSE IF ev.action = AKEY_EVENT_ACTION_DOWN
           THEN calls = << <<key, IF ev.repeatCount = 0 THEN "Pressed" ELSE "Repeated">> >>
           ELSE IF ev.action = AKEY_EVENT_ACTION_MULTIPLE
           THEN /\ Len(calls) = 2 * ev.repeatCount
                /\ \A j \in DOMAIN calls :
                      calls[j] = <<key, IF j % 2 = 1 THEN "Pressed" ELSE "Released">>
           ELSE TRUE

\* C23's case: a multiple action of a mapped key with repeat count 2 was
\* delivered to the key callback.
C23_Witness ==
    /\ KeyHandled /\ KeyEv.keyFunc
    /\ KeyEv.action = AKEY_EVENT_ACTION_MULTIPLE /\ KeyEv.repeatCount = 2
    /\ KeyEv.keyCode = AKEYCODE_9
    /\ Len(Calls(pd.cb, "key")) = 4

\* The value the last key handler returned.
KeyReturned == pd.cb[Len(pd.cb)].a[1]

\* C24: a release of the back key that the embedder does not consume (its
\* key callback answers unhandled, or there is none to consume it) calls
\* moveTaskToBack exactly once, and the event is reported handled exactly
\* when that call succeeds; moveTaskToBack is not called when the callback
\* consumed the release, nor for a key-down, a multiple action or another key.
C24_BackKeyMovesToBackground ==
    KeyHandled =>
        LET ev == KeyEv
            moves == Calls(pd.cb, "moveTaskToBack")
            consumed == \E j \in DOMAIN Calls(pd.cb, "key") : Calls(pd.cb, "key")[j][3]
        IN IF ev.keyCode = AKEYCODE_BACK /\ ev.action = AKEY_EVENT_ACTION_UP /\ ~consumed
           THEN Len(moves) = 1 /\ KeyReturned = moves[1][1]
           ELSE moves = <<>>

\* C25: with a char callback registered, a key-down or a multiple action
\* whose code point is at least 0x20 invokes the callback with the UTF-8
\* encoding of the code point, 1 to 4 bytes and never empty, once for a
\* key-down and once per repeat count for a multiple action; a key-up, or a
\* code point below 0x20, invokes no char callback.
C25_TextPath ==
    KeyHandled /\ KeyEv.charFunc =>
        LET ev == KeyEv
            chars == Calls(pd.cb, "char")
        IN IF /\ ev.action \in {AKEY_EVENT_ACTION_DOWN, AKEY_EVENT_ACTION_MULTIPLE}
              /\ ev.unicode >= 32
           THEN /\ Len(chars) = (IF ev.action = AKEY_EVENT_ACTION_DOWN
                                 THEN 1 ELSE ev.repeatCount)
                /\ \A j \in DOMAIN chars :
                      /\ Len(chars[j][1]) \in 1 .. 4
                      /\ ev.unicode < 1114112 => chars[j][1] = StandardUTF8(ev.unicode)
           ELSE chars = <<>>

\* ------------------------------------------------------------ touch claims

\* C26: every touch callback of a motion event carries the phase of the
\* event's action: Began for down and pointer-down, Ended for up, pointer-up
\* and outside, Moved for move, Cancelled for cancel; an event with any
\* other action invokes no touch callback.
C26_TouchActionMapping ==
    LET a == touch.action
        phase == IF a \in {"DOWN", "POINTER_DOWN"} THEN "Began"
                 ELSE IF a \in {"UP", "POINTER_UP", "OUTSIDE"} THEN "Ended"
                 ELSE IF a = "MOVE" THEN "Moved"
                 ELSE IF a = "CANCEL" THEN "Cancelled"
                 ELSE "dropped"
    IN \A j \in DOMAIN pd.cb : pd.cb[j].f = "touch" => pd.cb[j].a[2] = phase

\* C26's case: an event with the action outside, for a pointer in range, was
\* delivered as Ended.
C26_Witness ==
    /\ touch.action = "OUTSIDE"
    /\ Calls(pd.cb, "touch") = << <<touch.pointers[touch.index], "Ended">> >>

\* C27: a motion event invokes the touch callback, for a moved action, once
\* for each pointer whose id is in [0, maxTouches), in the order of the
\* pointers in the event, and for any other action at most once, for the
\* pointer at the index in the action, and not at all when that pointer's id
\* is out of range.
C27_TouchBatching ==
    [][(/\ touch'.action \in MotionActions
        /\ pd' \in {End(t) : t \in OnMotionEvent(Begin(pd, "MOTION"), touch'.action,
                                                  touch'.pointers, touch'.index)})
       => LET ps == touch'.pointers
              max == IF pd.multitouchEnabled THEN MAX_SIMULTANEOUS_TOUCHES ELSE 1
              InRange(id) == id >= 0 /\ id < max
              calls == Calls(pd'.cb, "touch")
          IN IF touch'.action = "MOVE"
             THEN calls = [j \in DOMAIN SelectSeq(ps, InRange) |->
                              <<SelectSeq(ps, InRange)[j], "Moved">>]
             ELSE /\ Len(calls) <= 1
                  /\ \A j \in DOMAIN calls : calls[j][1] = ps[touch'.index]
                  /\ ~InRange(ps[touch'.index]) => calls = <<>>]_vars

\* C27's case: a moved event with two pointers in range was delivered as two
\* calls in the order of the pointers, which is not the order of their ids.
C27_Witness ==
    /\ touch.action = "MOVE" /\ touch.pointers = <<1, 0>>
    /\ Calls(pd.cb, "touch") = << <<1, "Moved">>, <<0, "Moved">> >>

\* ------------------------------------------------------------ command claims

\* C28: in every state, a save-state, window-resized, resume, pause or stop
\* command, and a command code the switch does not name, changes no field of
\* the platform state and invokes no callback; a low-memory command invokes
\* the low-memory callback, nothing else, and changes no field.
C28_CommandsWithoutEffect ==
    /\ \A c \in {"SAVE_STATE", "WINDOW_RESIZED", "RESUME", "PAUSE", "STOP",
                 "CONFIG_CHANGED"} :
          glfmOnAppCmd(Begin(pd, c), c) = {Begin(pd, c)}
    /\ \A t \in glfmOnAppCmd(Begin(pd, "LOW_MEMORY"), "LOW_MEMORY") :
          /\ Fired(t.cb) = <<"lowMemory">>
          /\ NoLog(t) = Begin(pd, "LOW_MEMORY")

\* C28's case: a low-memory command was handled while animating with a
\* current context, and invoked the low-memory callback only.
C28_Witness ==
    /\ Fired(pd.cb) = <<"lowMemory">>
    /\ pd.cb[1].cur /\ pd.cb[1].anim /\ pd.cb[1].surf
    /\ pd.eglContextCurrent /\ pd.animating /\ pd.eglSurface

KeyboardCalls(cb) == {i \in DOMAIN cb : cb[i].f = "keyboardVisibilityChanged"}

\* What holds of every invocation of the keyboard-visibility callback: the
\* stored visibility and frame already are the ones it carries, and a
\* not-visible report carries the frame (0,0,0,0); and a content-rect-changed
\* command invokes it only when the computed visibility or frame differs
\* from the stored one, and then at most once.
KeyboardNotifiedOnChange ==
    /\ \A i \in KeyboardCalls(pd.cb) :
          LET e == pd.cb[i]
          IN /\ e.a = <<e.kb[1], e.kb[2].left, e.kb[2].top,
                        RectW(e.kb[2]), RectH(e.kb[2])>>
             /\ ~e.a[1] => e.kb[2] = ZeroRect
    /\ \A t \in {glfmUpdateKeyboardVisibility(Begin(pd, "CONTENT_RECT_CHANGED"))} :
          LET res == KeyboardResult(pd.contentRect,
                                    glfmGetWindowVisibleDisplayFrame(pd.contentRect),
                                    win.density)
              differs == pd.keyboardVisible # res.visible \/ pd.keyboardFrame # res.frame
          IN /\ Cardinality(KeyboardCalls(t.cb)) =
                    (IF differs /\ pd.keyboardVisibilityChangedFunc THEN 1 ELSE 0)
             /\ t.keyboardVisible = res.visible /\ t.keyboardFrame = res.frame

\* C31 (as stated): the keyboard-visibility callback fires only when the
\* computed visibility or frame differs from the stored one, with the stored
\* values updated before the callback; consecutive deliveries never carry an
\* identical (visible, frame) pair; a not-visible report carries (0,0,0,0).
C31_KeyboardConsecutiveDiffer ==
    /\ KeyboardNotifiedOnChange
    /\ \A i \in KeyboardCalls(pd.cb) : pd.cb[i].lastKb # <<pd.cb[i].a>>

\* C31 (amended): as above, but two consecutive deliveries carry different
\* pairs only if every change of the stored values between them was
\* delivered, that is, if the callback was registered at each such change.
C31_KeyboardDeliveredDiffer ==
    /\ KeyboardNotifiedOnChange
    /\ \A i \in KeyboardCalls(pd.cb) :
          ~pd.cb[i].kbMissed => pd.cb[i].lastKb # <<pd.cb[i].a>>

\* C31's case: the callback reports the keyboard hidden, with the zero frame,
\* after it had reported it visible.
C31_Witness ==
    \E i \in KeyboardCalls(pd.cb) :
        /\ pd.cb[i].a = <<FALSE, 0, 0, 0, 0>>
        /\ pd.cb[i].lastKb # <<>> /\ pd.cb[i].lastKb[1][1]
        /\ ~pd.cb[i].kbMissed

\* ------------------------------------------------------------ frame pacing claims

\* C32: when the embedder did not swap during the render callback, the
\* deadline is lastSwapTime + 1/refreshRate; when the pass of the main loop
\* ends, lastSwapTime has advanced by at least one refresh period; and when
\* the pass had to wait for the deadline it has slept until 0.5 ms before the
\* deadline and the next pass does not start before the deadline has passed
\* on the clock.
C32_FramePacing ==
    /\ pace.pc = "loop" =>
          pace.sleepUntilTime = pace.lastSwapTime + pace.gPeriod
    /\ pace.pc = "draw" /\ pace.gExit \in {"late", "paced"} =>
          /\ pace.sleepUntilTime = pace.gPrevSwapTime + pace.gPeriod
          /\ pace.lastSwapTime >= pace.gPrevSwapTime + pace.gPeriod
    /\ pace.pc = "draw" /\ pace.gExit = "paced" =>
          /\ pace.clock >= pace.sleepUntilTime - PaceOffset
          /\ pace.clock >= pace.sleepUntilTime

\* ------------------------------------------------------------ context tier claims

\* C33: from every state, the context creation of an initialization: when
\* no context exists, eglCreateContext is attempted at strictly descending
\* tiers out of 3.2, 3.1, 3.0, 2.0, at no tier above the preferred API, at
\* every tier at or below it (and at 2.0 in any case) down to the first at
\* which it succeeds, so that 2.0 is attempted last when all others failed;
\* the tier recorded is the one of the attempt that succeeded.  When a
\* context exists no creation is attempted and the recorded tier is unchanged.
C33_ContextTierNegotiation ==
    \A r \in glfmEGLContextCreate(Begin(pd, "INIT_WINDOW")) :
        LET a == r.st.gAttempts
            n == Len(a)
        IN IF pd.eglContext
           THEN /\ a = <<>> /\ ~r.created
                /\ r.st.eglContext /\ r.st.renderingAPI = pd.renderingAPI
           ELSE /\ n >= 1
                /\ \A i \in 1..n : a[i] \in AttemptedTiers(pd.preferredAPI)
                /\ \A i \in 1..(n - 1) : a[i] > a[i + 1] /\ a[i] \notin win.contexts
                /\ {a[i] : i \in 1..n} = {t \in AttemptedTiers(pd.preferredAPI) : t >= a[n]}
                /\ r.created = (a[n] \in win.contexts)
                /\ r.st.eglContext = r.created
                /\ r.created => r.st.renderingAPI = a[n]
                /\ ~r.created => a[n] = 20 /\ r.st.renderingAPI = pd.renderingAPI

\* C33's case: with 3.2 preferred on a device without 3.2 and 3.1 contexts, a
\* window-init has created and bound a 3.0 context.
C33_Witness ==
    /\ pd.preferredAPI = 32 /\ win.contexts = {20, 30}
    /\ pd.eglContext /\ pd.eglContextCurrent /\ pd.renderingAPI = 30
    /\ Fired(pd.cb) # <<>> /\ pd.cb[1].f = "surfaceCreated"

\* ------------------------------------------------------------ configuration selection claims

\* The attempts of the selection relax the request in order: the colour and
\* stencil bits are those declared in every attempt, each attempt after the
\* first lowers the samples by 2 while there are samples and lowers the depth
\* bits by 8 only then, down to 8 and no further, and there are at most five.
FormatAttemptsInOrder ==
    LET a == fmt.attempts
    IN /\ Len(a) <= 5
       /\ a # <<>> => a[1] = fmt.request
       /\ \A i \in DOMAIN a :
             /\ a[i].rBits = fmt.request.rBits /\ a[i].gBits = fmt.request.gBits
             /\ a[i].bBits = fmt.request.bBits /\ a[i].aBits = fmt.request.aBits
             /\ a[i].stencilBits = fmt.request.stencilBits
             /\ a[i].samples \in {4, 2, 0}
       /\ \A i \in 1..(Len(a) - 1) :
             IF a[i].samples > 0
             THEN a[i + 1].samples = a[i].samples - 2
                  /\ a[i + 1].depthBits = a[i].depthBits
             ELSE a[i + 1].samples = 0 /\ a[i].depthBits > 8
                  /\ a[i + 1].depthBits = a[i].depthBits - 8

\* C34: the configuration selection makes at most five attempts, relaxes
\* first the multisample count (4, 2, 0) and only then the depth precision
\* (by 8 bits, down to 8), never the colour or stencil bits; it ends with the
\* first request of that order that a configuration of the device matches,
\* and with that configuration, or fails once the samples are 0 and the
\* depth bits at most 8 and no request of the order was matched.
C34_FormatSelection ==
    LET a == fmt.attempts
        n == Len(a)
    IN /\ FormatAttemptsInOrder
       /\ fmt.pc = "found" =>
             /\ \A i \in 1..(n - 1) : Matching(fmt.available, a[i]) = {}
             /\ fmt.eglConfig # <<>>
             /\ fmt.eglConfig[1] \in Matching(fmt.available, a[n])
       /\ fmt.pc = "failed" =>
             /\ a[n].samples = 0 /\ a[n].depthBits <= 8
             /\ \A i \in 1..n : Matching(fmt.available, a[i]) = {}

\* ------------------------------------------------------------ destroy claims

\* The state a destroy leaves, as C35 describes it but for the sensors.
DestroyedCore(t) ==
    /\ ~t.animating /\ ~t.eglContextCurrent
    /\ ~t.eglDisplay /\ ~t.eglContext /\ ~t.eglSurface
    /\ ~t.app

\* C35: a destroy request ends the main loop, and in the state it leaves
\* animating and the context-current flag are false, the display, context and
\* surface handles are null, every sensor is device-disabled, the sensor
\* queue is released and the app back-reference is cleared; processing it
\* from any state delivers surface-destroyed exactly when a context existed,
\* and then before focus(false), which is delivered exactly when animating
\* was true, and delivers no render or refresh callback.
C35_Destroy ==
    /\ ~running =>
          /\ DestroyedCore(pd)
          /\ \A i \in Sensors : ~pd.deviceSensorEnabled[i]
          /\ ~pd.sensorEventQueue
    /\ running =>
          \A t \in OnDestroy(Begin(pd, "DESTROY")) :
              /\ DestroyedCore(t)
              /\ \A i \in Sensors : ~t.deviceSensorEnabled[i]
              /\ ~t.sensorEventQueue
              /\ Fired(t.cb) =
                    (IF pd.eglDisplay /\ pd.eglContext THEN <<"surfaceDestroyed">> ELSE <<>>)
                    \o (IF pd.animating THEN <<"focus">> ELSE <<>>)
              /\ Calls(t.cb, "focus") = (IF pd.animating THEN << <<FALSE>> >> ELSE <<>>)

\* A thread blocked in pthread_mutex_lock, parked on the condition variable,
\* or (the render thread) polling the command pipe does not hold the mutex.
MutexFreeWhileBlocked ==
    /\ rv.epc \in {"lock", "wait", "relock"} => rv.mutex # "event"
    /\ rv.rpc \in {"poll", "lock"} => rv.mutex # "render"

OtherCmds ==
    {"TERM_WINDOW", "WINDOW_REDRAW_NEEDED", "GAINED_FOCUS", "LOST_FOCUS",
     "CONTENT_RECT_CHANGED", "LOW_MEMORY", "DESTROY"} \cup QuietCmds

\* Every outcome leaves the context-current flag false and has invoked no
\* render or refresh callback.
StaysUnbound(S) ==
    \A t \in S :
        /\ ~t.eglContextCurrent
        /\ Count(t.cb, "render") = 0 /\ Count(t.cb, "refresh") = 0

\* C37: the recovery from a failed swap classified as surface-invalid leaves
\* the context-current flag false, also when the surface is created again;
\* and while the flag is false a pass of the main loop, every command other
\* than window-init and a new entry of android_main leave it false and
\* invoke no render or refresh callback.
C37_SurfaceRecoveryLeavesContextUnbound ==
    /\ (running /\ pd.animating /\ pd.eglContextCurrent) =>
          \A t \in glfmEGLCheckError([Begin(pd, "frame") EXCEPT !.gInRender = TRUE],
                                     ErrSurface) :
              /\ ~t.eglContextCurrent
              /\ t.eglContext = pd.eglContext /\ t.animating
    /\ (running /\ ~pd.eglContextCurrent) =>
          /\ StaysUnbound(glfmDrawFrame(Begin(pd, "frame")))
          /\ \A cmd \in OtherCmds, r \in win.rects :
                StaysUnbound(glfmOnAppCmd([Begin(pd, cmd) EXCEPT !.pendingContentRect = r],
                                          cmd))
    /\ (~running /\ ~pd.eglContextCurrent) => StaysUnbound({android_main(pd)})

\* C37's case: a pass of the main loop is over whose render callback made a
\* swap that failed on an invalid surface; the surface has been created again,
\* the context exists and is not current, and animating continues.
C37_Witness ==
    /\ pd.animating /\ pd.eglDisplay /\ pd.eglSurface /\ pd.eglContext
    /\ ~pd.eglContextCurrent
    /\ Count(pd.cb, "render") = 1 /\ Count(pd.cb, "surfaceDestroyed") = 0
    /\ Calls(pd.cb, "glfmSwapBuffers") = <<(<<FALSE>>)>>

\* The resize callbacks of a log were invoked with a display and a surface and
\* carry the live size, which is not the size recorded in s0.
ResizeLive(s0, cb) ==
    \A i \in DOMAIN cb :
        cb[i].f = "resize" =>
            /\ cb[i].dpy /\ cb[i].surf
            /\ cb[i].a = win.size
            /\ cb[i].a # <<s0.width, s0.height>>

\* C38: the resize callback is invoked only while a surface exists, with the
\* live size of that surface, which differs from the size recorded before,
\* by a pass of the main loop and by a content-rect-changed command alike;
\* and a content-rect-changed command handled while no surface exists
\* invokes no resize callback and leaves the recorded width and height as
\* they are.
C38_ResizeOnlyWithLiveSurface ==
    running =>
       /\ pd.animating => \A t \in glfmDrawFrame(Begin(pd, "frame")) : ResizeLive(pd, t.cb)
       /\ \A r \in win.rects :
             \A t \in OnContentRectChanged(
                         [Begin(pd, "CONTENT_RECT_CHANGED") EXCEPT !.pendingContentRect = r]) :
                /\ ResizeLive(pd, t.cb)
                /\ ~pd.eglSurface =>
                      /\ Count(t.cb, "resize") = 0
                      /\ t.width = pd.width /\ t.height = pd.height

\* The place of a callback in the order of content-rect-changed handling.
LayoutRank(f) ==
    IF f = "orientationChanged" THEN 1
    ELSE IF f = "resize" THEN 2
    ELSE IF f = "keyboardVisibilityChanged" THEN 3
    ELSE 0

\* C39: in the handling of a content-rect-changed command every callback is
\* invoked after the authoritative rectangle is updated and the broadcast is
\* made; the callbacks are orientation-changed (exactly when the orientation
\* changed), then resize (exactly when the queried size differs from the
\* recorded one, whatever the debounce counter, which is set to 5), then
\* keyboard-visibility (exactly when it changed), each at most once.
C39_ContentRectOrdering ==
    running =>
       \A r \in win.rects :
          \A t \in OnContentRectChanged(
                      [Begin(pd, "CONTENT_RECT_CHANGED") EXCEPT !.pendingContentRect = r]) :
             LET names == Fired(t.cb)
             IN /\ t.contentRect = r
                /\ \A i \in DOMAIN t.cb : t.cb[i].rect = r /\ t.cb[i].bc
                /\ \A i \in DOMAIN names : LayoutRank(names[i]) > 0
                /\ \A i, j \in DOMAIN names :
                      i < j => LayoutRank(names[i]) < LayoutRank(names[j])
                /\ Count(t.cb, "orientationChanged") = 1
                      <=> pd.orientation # glfmGetInterfaceOrientation(win.rotation)
                /\ Count(t.cb, "resize") = 1
                      <=> <<t.width, t.height>> # <<pd.width, pd.height>>
                /\ (pd.eglDisplay /\ pd.eglSurface) =>
                      /\ <<t.width, t.height>> = win.size
                      /\ Count(t.cb, "resize") = 1 <=> win.size # <<pd.width, pd.height>>
                /\ Count(t.cb, "resize") = 1 =>
                      t.resizeEventWaitFrames = RESIZE_EVENT_MAX_WAIT_FRAMES
                /\ Count(t.cb, "keyboardVisibilityChanged") = 1
                      <=> <<t.keyboardVisible, t.keyboardFrame>>
                             # <<pd.keyboardVisible, pd.keyboardFrame>>

\* C39's case: one content-rect-changed command, handled with a surface,
\* invoked all three callbacks.
C39_Witness ==
    /\ Fired(pd.cb) = <<"orientationChanged", "resize", "keyboardVisibilityChanged">>
    /\ \A i \in DOMAIN pd.cb :
          /\ pd.cb[i].cmd = "CONTENT_RECT_CHANGED" /\ pd.cb[i].surf
    /\ pd.resizeEventWaitFrames = RESIZE_EVENT_MAX_WAIT_FRAMES

\* C40: glfmMain has been called once in the process, however many times
\* android_main was left on a destroy and entered again; a new entry keeps the
\* display, the registered callbacks and the first-focus flag, calls glfmMain
\* no more, and starts with no display, surface or context handle, the
\* context not current, animating false and a refresh requested.
C40_ReentryKeepsDisplay ==
    /\ pd.display /\ pd.gMainCalls = 1
    /\ ~running =>
          LET t == android_main(pd)
          IN /\ t.display /\ t.gMainCalls = 1
             /\ Count(t.cb, "glfmMain") = 0
             /\ t.sensorFuncs = pd.sensorFuncs
             /\ t.keyboardVisibilityChangedFunc = pd.keyboardVisibilityChangedFunc
             /\ t.hasInited = pd.hasInited
             /\ ~t.eglDisplay /\ ~t.eglSurface /\ ~t.eglContext
             /\ ~t.eglContextCurrent
             /\ ~t.animating
             /\ t.refreshRequested
             /\ t.app

\* C40's case: android_main has just been entered again, after a run in which
\* the first focus was seen and a sensor callback was registered.
C40_Witness ==
    /\ running
    /\ Fired(pd.cb) = <<"android_main">>
    /\ pd.hasInited /\ pd.gEverAnimating
    /\ \E i \in Sensors : pd.sensorFuncs[i]
    /\ ~pd.eglDisplay /\ ~pd.animating /\ pd.refreshRequested

====
